---- MODULE Spec2Model ----
(***************************************************************************)
(* NVMe-Strom (src/nvme-strom.c): the registry of mapped GPU memory        *)
(* segments, its reference counting and teardown, and the DMA tasks that   *)
(* hold references to a segment.                                           *)
(*                                                                         *)
(* Every section of code that runs between mutex_lock() and mutex_unlock() *)
(* of one shard is one action, enabled when that shard's mutex is free.    *)
(* A mutex stays owned across actions only where the code leaves it owned. *)
(* A null pointer is 0; processes, segments and tasks are numbered from 1. *)
(***************************************************************************)
EXTENDS Integers, Naturals, FiniteSets, Sequences, TLC

(* ------------------------------ bounds --------------------------------- *)
NProcs   == 3       \* concurrent execution contexts
MaxSeg   == 1       \* kmalloc addresses available to mapped_gpu_memory
MaxTask  == 1       \* kmalloc addresses available to strom_dma_task
MaxOps   == 4       \* entry points called in one behaviour
WordBits == 20      \* width of unsigned long, scaled down from 64
MaxTurns == 3       \* turns of the loop over the pages of a file chunk

Procs   == 1..NProcs
Handles == 1..MaxSeg
Tasks   == 1..MaxTask
WordMax == 2^WordBits

(* ------------------------- boundary alignment -------------------------- *)
RECURSIVE BitAnd(_, _)
BitAnd(x, y) ==
    IF x = 0 \/ y = 0 THEN 0
    ELSE (x % 2) * (y % 2) + 2 * BitAnd(x \div 2, y \div 2)

BitNot(x) == (WordMax - 1) - x

GPU_BOUND_SHIFT  == 16
GPU_BOUND_SIZE   == 2^GPU_BOUND_SHIFT
GPU_BOUND_OFFSET == GPU_BOUND_SIZE - 1
GPU_BOUND_MASK   == BitNot(GPU_BOUND_OFFSET)

MapAddress(vaddress) == BitAnd(vaddress, GPU_BOUND_MASK)
MapOffsetWrongMask(vaddress) == BitAnd(vaddress, GPU_BOUND_SIZE)
MapOffset(vaddress)  == BitAnd(vaddress, GPU_BOUND_OFFSET)
MapLength(vaddress, length) == (MapOffset(vaddress) + length) % WordMax

(* inputs of the map ioctl: one misaligned request where the contexts
   interleave, a wider choice where the arithmetic is examined *)
VAddrs  == {GPU_BOUND_SIZE + 5}
Lengths == {4 * GPU_BOUND_SIZE}
VAddrsWide  == {0, GPU_BOUND_OFFSET, GPU_BOUND_SIZE + 1,
                3 * GPU_BOUND_SIZE + 4097, WordMax - 1}
LengthsWide == {1, GPU_BOUND_SIZE, 4 * GPU_BOUND_SIZE + 1}

(* page_table->page_size as the driver reports it *)
DriverPageSizes == {"4KB", "64KB", "128KB", "other"}
PageClasses     == {"64KB", "other"}
PageSizeBytes(cls) ==
    CASE cls = "4KB"   -> 4 * 1024
      [] cls = "64KB"  -> 64 * 1024
      [] cls = "128KB" -> 128 * 1024
      [] OTHER         -> 0

(* the chunks of a copy request *)
PAGE_SIZE == 4096
MemChunk(host_addr, length) ==
    [source |-> "m", host_addr |-> host_addr, length |-> length]
Requests     == {<<>>}
RequestsWide == {<<MemChunk(0, 2 * PAGE_SIZE)>>}
RequestsCopy ==
    {<<MemChunk(0, PAGE_SIZE)>>,
     <<MemChunk(0, 2 * PAGE_SIZE)>>,
     <<MemChunk(0, PAGE_SIZE), MemChunk(0, PAGE_SIZE),
       MemChunk(0, PAGE_SIZE)>>,
     <<MemChunk(16 * PAGE_SIZE, PAGE_SIZE)>>}
\* a chunk whose source is neither 'm' nor 'f'
OtherChunk(length) ==
    [source |-> "x", host_addr |-> 0, length |-> length]
\* a chunk read from the source file: file_pos is the other member of
\* the union that holds host_addr
FileChunk(file_pos, length) ==
    [source |-> "f", host_addr |-> file_pos, length |-> length]
RequestsChunks ==
    {<<OtherChunk(PAGE_SIZE), MemChunk(0, PAGE_SIZE)>>,
     <<MemChunk(0, PAGE_SIZE)>>,
     <<MemChunk(PAGE_SIZE - 1, 2)>>,
     <<MemChunk(0, PAGE_SIZE + 1)>>,
     <<MemChunk(3 * PAGE_SIZE + 16, PAGE_SIZE)>>,
     <<FileChunk(0, 0), MemChunk(0, PAGE_SIZE)>>,
     <<FileChunk(PAGE_SIZE, PAGE_SIZE)>>}
\* what the copy reads and the request does not decide: dtask->offset,
\* the addresses of the pinned pages (here contiguous), temp_size, this_size
HostPages(first, stride) ==
    [k \in 1..4 |-> first + (k - 1) * stride]
Env(offset, pages, temp_size, this_size) ==
    [offset |-> offset, pages |-> pages,
     temp_size |-> temp_size, this_size |-> this_size]
Envs == {Env(0, HostPages(8 * PAGE_SIZE, PAGE_SIZE), 0, 0)}
EnvsCopy ==
    {Env(offset, HostPages(8 * PAGE_SIZE, stride), undefined, undefined) :
        offset \in {0, PAGE_SIZE, 15 * PAGE_SIZE},
        stride \in {PAGE_SIZE, 2 * PAGE_SIZE},
        undefined \in {0, PAGE_SIZE}}

\* karg.nrooms of the info ioctl, and the index at which put_user() fails
\* (an index the loop never reaches: no failure)
NRooms       == {8}
NRoomsWide   == {0, 2, 5, 8}
FaultAts     == {8}
FaultAtsWide == {0, 1, 8}
\* the same, and a destination offset past the end of the mapped segment
EnvsChunks ==
    Envs \cup {Env(5 * GPU_BOUND_SIZE, HostPages(8 * PAGE_SIZE, PAGE_SIZE),
                   0, 0)}
FDescs     == {-1}
FDescsWide == {-1, 3}

(* ------------------------------ registry ------------------------------- *)
MAPPED_GPU_MEMORY_NSLOTS == 48
STROM_DMA_TASK_NSLOTS    == 100
MgmemSlots == 0..(MAPPED_GPU_MEMORY_NSLOTS - 1)
TaskSlots  == 0..(STROM_DMA_TASK_NSLOTS - 1)

\* arch_fast_hash() is the kernel's; any deterministic function of the key
\* stands for it.  This one lets two distinct keys share a shard.
arch_fast_hash(key, seed) == (key \div 2) + seed

strom_mapped_gpu_memory_index(handle) ==
    arch_fast_hash(handle, 538183426) % MAPPED_GPU_MEMORY_NSLOTS

strom_dma_task_index(dma_task_id) ==
    arch_fast_hash(dma_task_id, 538050822) % STROM_DMA_TASK_NSLOTS

VARIABLES
    \* struct mapped_gpu_memory, by kmalloc address
    mgmem_alloc,        \* TRUE between kmalloc and kfree
    refcnt,
    wait_task,
    map_address,
    map_offset,
    map_length,
    page_size,
    page_table,         \* "none", "pinned", "revoking", "revoked", "released"
    \* the registry of segments
    strom_mgmem_slots,  \* shard -> set of linked entries
    strom_mgmem_mutex,  \* shard -> owner, 0 when free
    \* struct strom_dma_task, by kmalloc address
    dtask_alloc,
    dtask_mgmem,
    dtask_wait_task,
    dtask_filp,         \* dtask->filp: 1 when the task holds the source file
    dtask_chunks,       \* dtask->chunks[], dtask->nchunks
    dtask_nitems,       \* pages recorded in dtask->dma_pages_list
    dtask_dstate,       \* the copy of the task: where it goes, its pinned
                        \* pages, the descriptors submitted
    strom_dma_task_slots,
    strom_dma_task_mutex,
    \* execution contexts
    pc,
    op,                 \* entry point running
    rc,                 \* local variable rc, the return value at "ret"
    handle,             \* handle argument
    mgmem,              \* local pointer to a segment
    dtask,              \* local pointer to a task
    karg,               \* arguments copied from user space
    wait_task_saved,
    task_state,         \* "RUNNING" or "UNINTERRUPTIBLE"
    filp,               \* local pointer to the source file, 1 when set
    \* outside the module
    uout,               \* *uarg of the info ioctl the context is in or back from
    f_count,            \* references this module holds on the source file
    npinned,            \* host pages this module has pinned, not released
    \* history
    mapped,             \* handles returned by map, not yet torn down
    nfreed,             \* page-table releases since the segment's kmalloc
    nops

segvars  == <<mgmem_alloc, refcnt, wait_task, map_address, map_offset,
              map_length, page_size, page_table>>
regvars  == <<strom_mgmem_slots, strom_mgmem_mutex>>
taskvars == <<dtask_alloc, dtask_mgmem, dtask_wait_task, dtask_filp,
              dtask_chunks, dtask_nitems, dtask_dstate,
              strom_dma_task_slots, strom_dma_task_mutex>>
iovars   == <<filp, uout, f_count, npinned>>
locvars  == <<handle, mgmem, dtask, karg, wait_task_saved>>
vars == <<segvars, regvars, taskvars, pc, op, rc, locvars, task_state,
          iovars, mapped, nfreed, nops>>

NoKarg == [vaddress |-> 0, length |-> 0]
NoDpages == [nitems |-> 0, nrooms |-> 0]
NoDstate == [offset |-> 0, pages |-> <<>>, tx |-> <<>>,
             pos |-> 0, dpages |-> NoDpages, turns |-> 0]
NoOut  == [nrooms |-> 0, page_size |-> 0, entries |-> 0,
           physical_address |-> <<>>]

Init ==
    /\ mgmem_alloc = [h \in Handles |-> FALSE]
    /\ refcnt      = [h \in Handles |-> 0]
    /\ wait_task   = [h \in Handles |-> 0]
    /\ map_address = [h \in Handles |-> 0]
    /\ map_offset  = [h \in Handles |-> 0]
    /\ map_length  = [h \in Handles |-> 0]
    /\ page_size   = [h \in Handles |-> 0]
    /\ page_table  = [h \in Handles |-> "none"]
    /\ strom_mgmem_slots = [i \in MgmemSlots |-> {}]
    /\ strom_mgmem_mutex = [i \in MgmemSlots |-> 0]
    /\ dtask_alloc     = [t \in Tasks |-> FALSE]
    /\ dtask_mgmem     = [t \in Tasks |-> 0]
    /\ dtask_wait_task = [t \in Tasks |-> 0]
    /\ dtask_filp      = [t \in Tasks |-> 0]
    /\ dtask_chunks    = [t \in Tasks |-> <<>>]
    /\ dtask_nitems    = [t \in Tasks |-> 0]
    /\ dtask_dstate    = [t \in Tasks |-> NoDstate]
    /\ strom_dma_task_slots = [i \in TaskSlots |-> {}]
    /\ strom_dma_task_mutex = [i \in TaskSlots |-> 0]
    /\ pc     = [p \in Procs |-> "idle"]
    /\ op     = [p \in Procs |-> "none"]
    /\ rc     = [p \in Procs |-> "none"]
    /\ handle = [p \in Procs |-> 0]
    /\ mgmem  = [p \in Procs |-> 0]
    /\ dtask  = [p \in Procs |-> 0]
    /\ karg   = [p \in Procs |-> NoKarg]
    /\ wait_task_saved = [p \in Procs |-> 0]
    /\ task_state = [p \in Procs |-> "RUNNING"]
    /\ filp    = [p \in Procs |-> 0]
    /\ uout    = [p \in Procs |-> NoOut]
    /\ f_count = 0
    /\ npinned = 0
    /\ mapped = {}
    /\ nfreed = [h \in Handles |-> 0]
    /\ nops   = 0

(* --------------------------- common pieces ----------------------------- *)
\* a context is in user space: it has called nothing yet, or its last
\* entry point has returned
InUserSpace(p) == pc[p] \in {"idle", "ret"}

\* Contexts in user space are interchangeable: the next entry point is
\* called by the lowest-numbered one.
Enter(p, name, h) ==
    /\ InUserSpace(p)
    /\ \A q \in Procs : q < p => ~InUserSpace(q)
    /\ nops < MaxOps
    /\ nops' = nops + 1
    /\ op' = [op EXCEPT ![p] = name]
    /\ handle' = [handle EXCEPT ![p] = h]

\* uout[p] is the argument of an info ioctl: the context that enters
\* another entry point has none
NoUarg(p) == uout' = [uout EXCEPT ![p] = NoOut]

\* the entry point goes on to the step at label
Goto(p, label) ==
    /\ pc' = [pc EXCEPT ![p] = label]
    /\ rc' = [rc EXCEPT ![p] = "none"]

\* the same, with the local variable rc set
GotoRc(p, label, value) ==
    /\ pc' = [pc EXCEPT ![p] = label]
    /\ rc' = [rc EXCEPT ![p] = value]

\* the entry point returns value
Return(p, value) ==
    /\ pc' = [pc EXCEPT ![p] = "ret"]
    /\ rc' = [rc EXCEPT ![p] = value]
    /\ mgmem'  = [mgmem EXCEPT ![p] = 0]
    /\ dtask'  = [dtask EXCEPT ![p] = 0]
    /\ karg'   = [karg EXCEPT ![p] = NoKarg]
    /\ wait_task_saved' = [wait_task_saved EXCEPT ![p] = 0]

\* the entries linked anywhere in the registry
RegistryOf(slots) == UNION {slots[i] : i \in MgmemSlots}
Registry == RegistryOf(strom_mgmem_slots)

\* list_for_each_entry(...) if (mgmem->handle != handle) continue;
SlotFindAny(slots, index, h) == TRUE
SlotFind(slots, index, h) == h \in slots[index]

list_add(slots, index, e) == [slots EXCEPT ![index] = @ \cup {e}]

list_del_kept(slots, index, e) == slots
list_del(slots, index, e) == [slots EXCEPT ![index] = @ \ {e}]

mutex_free(mutexes, index) == mutexes[index] = 0

mutex_unlock_skipped(mutexes, index, p) == [mutexes EXCEPT ![index] = p]

\* mutex_unlock(mutex) by p, which had taken it, before schedule()
mutex_unlock(mutexes, index, p) == [mutexes EXCEPT ![index] = 0]

\* the device pages of the segment are pinned for this module
Pinned(h) == page_table[h] \in {"pinned", "revoking"}

(* ------------------- strom_ioctl_map_gpu_memory ------------------------ *)
\* kfree(mgmem): the memory of the entry is no longer part of the state
kfree_mgmem(h) ==
    /\ mgmem_alloc' = [mgmem_alloc EXCEPT ![h] = FALSE]
    /\ refcnt'      = [refcnt EXCEPT ![h] = 0]
    /\ wait_task'   = [wait_task EXCEPT ![h] = 0]
    /\ map_address' = [map_address EXCEPT ![h] = 0]
    /\ map_offset'  = [map_offset EXCEPT ![h] = 0]
    /\ map_length'  = [map_length EXCEPT ![h] = 0]
    /\ page_size'   = [page_size EXCEPT ![h] = 0]

\* copy_from_user, kmalloc, the initialisation of the entry, and
\* __nvidia_p2p_get_pages(), which installs the revocation callback; when
\* the pin fails, error_1: frees the entry
MapBegin(p, vaddress, length) ==
    /\ Enter(p, "map", 0)
    /\ \/ /\ \E value \in {"-EFAULT", "-ENOMEM"} : Return(p, value)
          /\ UNCHANGED <<segvars, nfreed>>
       \/ \E h \in Handles :
            /\ ~mgmem_alloc[h]
            /\ nfreed' = [nfreed EXCEPT ![h] = 0]
            /\ \/ /\ mgmem_alloc' = [mgmem_alloc EXCEPT ![h] = TRUE]
                  /\ refcnt'      = [refcnt EXCEPT ![h] = 0]
                  /\ map_address' = [map_address EXCEPT
                                        ![h] = MapAddress(vaddress)]
                  /\ map_offset'  = [map_offset EXCEPT
                                        ![h] = MapOffset(vaddress)]
                  /\ map_length'  = [map_length EXCEPT
                                        ![h] = MapLength(vaddress, length)]
                  /\ wait_task'   = [wait_task EXCEPT ![h] = 0]
                  /\ page_table'  = [page_table EXCEPT ![h] = "pinned"]
                  /\ page_size'   = [page_size EXCEPT ![h] = 0]
                  /\ mgmem' = [mgmem EXCEPT ![p] = h]
                  /\ karg'  = [karg EXCEPT ![p] =
                                  [vaddress |-> vaddress, length |-> length]]
                  /\ Goto(p, "map_page_size")
                  /\ UNCHANGED <<dtask, wait_task_saved>>
               \/ /\ page_table' = [page_table EXCEPT ![h] = "none"]
                  /\ kfree_mgmem(h)
                  /\ Return(p, "-EINVAL")
    /\ UNCHANGED <<regvars, taskvars, task_state, mapped>>
    /\ NoUarg(p)
    /\ UNCHANGED <<filp, f_count, npinned>>

MapErrorLeaksPin(p, h, value) ==
    /\ UNCHANGED <<page_table, nfreed>>
    /\ kfree_mgmem(h)
    /\ Return(p, value)

\* error_2: __nvidia_p2p_put_pages(), kfree(mgmem), return rc
MapError(p, h, value) ==
    /\ page_table' = [page_table EXCEPT ![h] = "released"]
    /\ nfreed' = [nfreed EXCEPT ![h] = @ + 1]
    /\ kfree_mgmem(h)
    /\ Return(p, value)

\* the page size the switch on page_table->page_size accepts
PageSizeSupported(cls) == cls \in {"4KB", "64KB", "128KB"}

\* the switch on page_table->page_size, then put_user() of the handle
MapPageSize(p, cls, put_user_ok) ==
    /\ pc[p] = "map_page_size"
    /\ IF ~PageSizeSupported(cls)
       THEN /\ MapError(p, mgmem[p], "-EINVAL")
            /\ UNCHANGED handle
       ELSE IF ~put_user_ok
       THEN /\ MapError(p, mgmem[p], "-EFAULT")
            /\ UNCHANGED handle
       ELSE /\ page_size' = [page_size EXCEPT ![mgmem[p]] = PageSizeBytes(cls)]
            /\ handle' = [handle EXCEPT ![p] = mgmem[p]]
            /\ Goto(p, "map_attach")
            /\ UNCHANGED <<mgmem_alloc, refcnt, wait_task, map_address,
                           map_offset, map_length, page_table, nfreed, mgmem,
                           dtask, karg, wait_task_saved>>
    /\ UNCHANGED <<regvars, taskvars, op, task_state, mapped, nops>>
    /\ UNCHANGED iovars

\* attach this mapped_gpu_memory
MapAttach(p) ==
    /\ pc[p] = "map_attach"
    /\ LET index == strom_mapped_gpu_memory_index(mgmem[p]) IN
         /\ mutex_free(strom_mgmem_mutex, index)
         /\ strom_mgmem_slots' = list_add(strom_mgmem_slots, index, mgmem[p])
    /\ mapped' = mapped \cup {mgmem[p]}
    /\ Return(p, "0")
    /\ UNCHANGED <<segvars, strom_mgmem_mutex, taskvars, op, handle,
                   task_state, nfreed, nops>>
    /\ UNCHANGED iovars

(* ------------- strom_get / strom_put_mapped_gpu_memory ----------------- *)
GetFindsUnlinked(h) == mgmem_alloc[h]

\* strom_get_mapped_gpu_memory() finds an entry for h
GetFinds(h) ==
    SlotFind(strom_mgmem_slots, strom_mapped_gpu_memory_index(h), h)

GetRefcntSame(n) == n

\* mgmem->refcnt++
GetRefcnt(n) == n + 1

\* strom_get_mapped_gpu_memory(h) by p, which goes on at found or returns
\* notfound
strom_get_mapped_gpu_memory(p, h, found, notfound) ==
    /\ mutex_free(strom_mgmem_mutex, strom_mapped_gpu_memory_index(h))
    /\ IF GetFinds(h)
       THEN /\ refcnt' = [refcnt EXCEPT ![h] = GetRefcnt(@)]
            /\ mgmem' = [mgmem EXCEPT ![p] = h]
            /\ Goto(p, found)
            /\ UNCHANGED <<dtask, karg, wait_task_saved>>
       ELSE /\ Return(p, notfound)
            /\ UNCHANGED refcnt

\* BUG_ON(mgmem->refcnt < 1)
PutAssertFails(h) == refcnt[h] < 1

PutRefcntKept(n) == n

\* mgmem->refcnt--
PutRefcnt(n) == n - 1

PutWakesAtAnyCount(h, n) == wait_task[h] # 0

\* if (mgmem->refcnt == 0 && mgmem->wait_task != NULL)
PutWakes(h, n) == n = 0 /\ wait_task[h] # 0

\* strom_put_mapped_gpu_memory(h) by p; the caller moves pc
strom_put_mapped_gpu_memory(p, h) ==
    LET index == strom_mapped_gpu_memory_index(h) IN
    /\ mutex_free(strom_mgmem_mutex, index)
    /\ IF PutAssertFails(h)
       THEN /\ strom_mgmem_mutex' = [strom_mgmem_mutex EXCEPT ![index] = p]
            /\ UNCHANGED <<refcnt, wait_task, task_state>>
       ELSE /\ refcnt' = [refcnt EXCEPT ![h] = PutRefcnt(@)]
            /\ IF PutWakes(h, PutRefcnt(refcnt[h]))
               THEN /\ task_state' = [task_state EXCEPT
                                         ![wait_task[h]] = "RUNNING"]
                    /\ wait_task' = [wait_task EXCEPT ![h] = 0]
               ELSE UNCHANGED <<wait_task, task_state>>
            /\ UNCHANGED strom_mgmem_mutex

(* ----------------- __strom_clenup_mapped_gpu_memory -------------------- *)
\* the cleanup returns; a revoked pin is gone once its callback has returned
CleanupReturn(p, name, h, value, table) ==
    /\ page_table' = [table EXCEPT ![h] =
                         IF name = "revoke" /\ @ = "revoking"
                         THEN "revoked" ELSE @]
    /\ Return(p, value)

CleanupNeverWaits(h) == FALSE

\* if (mgmem->refcnt > 0): the teardown has to wait for the holders
CleanupMustWait(h) == refcnt[h] > 0

\* the search under the mutex, list_del, and the choice to wait
CleanupSearch(p, h, name, table) ==
    LET index == strom_mapped_gpu_memory_index(h) IN
    /\ mutex_free(strom_mgmem_mutex, index)
    /\ mapped' = mapped \ {h}
    /\ IF SlotFind(strom_mgmem_slots, index, h)
       THEN /\ strom_mgmem_slots' = list_del(strom_mgmem_slots, index, h)
            /\ mgmem' = [mgmem EXCEPT ![p] = h]
            /\ page_table' = table
            /\ IF CleanupMustWait(h)
               THEN /\ wait_task_saved' = [wait_task_saved EXCEPT
                                               ![p] = wait_task[h]]
                    /\ wait_task' = [wait_task EXCEPT ![h] = p]
                    /\ task_state' = [task_state EXCEPT
                                         ![p] = "UNINTERRUPTIBLE"]
                    /\ strom_mgmem_mutex' =
                           mutex_unlock(strom_mgmem_mutex, index, p)
                    /\ Goto(p, "cleanup_schedule")
               ELSE /\ Goto(p, "cleanup_free")
                    /\ UNCHANGED <<wait_task, wait_task_saved, task_state,
                                   strom_mgmem_mutex>>
            /\ UNCHANGED <<dtask, karg>>
       ELSE /\ CleanupReturn(p, name, h, "-ENOENT", table)
            /\ UNCHANGED <<strom_mgmem_slots, wait_task, task_state,
                           strom_mgmem_mutex>>
    /\ UNCHANGED <<mgmem_alloc, refcnt, map_address, map_offset, map_length,
                   page_size, taskvars, nfreed>>
    /\ NoUarg(p)
    /\ UNCHANGED <<filp, f_count, npinned>>

\* strom_ioctl_unmap_gpu_memory with a handle it cannot read
UnmapFault(p) ==
    /\ Enter(p, "unmap", 0)
    /\ Return(p, "-EFAULT")
    /\ UNCHANGED <<segvars, regvars, taskvars, task_state, mapped, nfreed>>
    /\ NoUarg(p)
    /\ UNCHANGED <<filp, f_count, npinned>>

\* strom_ioctl_unmap_gpu_memory(h)
Unmap(p, h) ==
    /\ Enter(p, "unmap", h)
    /\ CleanupSearch(p, h, "unmap", page_table)

\* the GPU driver calls strom_cleanup_mapped_gpu_memory(h) for a pin it
\* is about to take back
Revoke(p, h) ==
    /\ Enter(p, "revoke", h)
    /\ page_table[h] = "pinned"
    /\ CleanupSearch(p, h, "revoke", [page_table EXCEPT ![h] = "revoking"])

\* schedule() returns once the process has been woken
CleanupSchedule(p) ==
    /\ pc[p] = "cleanup_schedule"
    /\ task_state[p] = "RUNNING"
    /\ task_state' = IF wait_task_saved[p] # 0
                     THEN [task_state EXCEPT ![wait_task_saved[p]] = "RUNNING"]
                     ELSE task_state
    /\ Goto(p, "cleanup_relock")
    /\ UNCHANGED <<segvars, regvars, taskvars, op, locvars, mapped, nfreed,
                   nops>>
    /\ UNCHANGED iovars

\* BUG_ON(mgmem->refcnt == 0) after the wake-up
CleanupAssertFails(h) == refcnt[h] = 0

\* mutex_lock, the assertion, mutex_unlock
CleanupRelock(p) ==
    LET index == strom_mapped_gpu_memory_index(handle[p]) IN
    /\ pc[p] = "cleanup_relock"
    /\ mutex_free(strom_mgmem_mutex, index)
    /\ IF CleanupAssertFails(mgmem[p])
       THEN /\ strom_mgmem_mutex' = [strom_mgmem_mutex EXCEPT ![index] = p]
            /\ Goto(p, "BUG_ON_cleanup")
       ELSE /\ Goto(p, "cleanup_free")
            /\ UNCHANGED strom_mgmem_mutex
    /\ UNCHANGED <<segvars, strom_mgmem_slots, taskvars, op, locvars,
                   task_state, mapped, nfreed, nops>>
    /\ UNCHANGED iovars

\* __nvidia_p2p_free_page_table(), kfree(mgmem), return 0
CleanupFree(p) ==
    /\ pc[p] = "cleanup_free"
    /\ nfreed' = [nfreed EXCEPT ![mgmem[p]] = @ + 1]
    /\ kfree_mgmem(mgmem[p])
    /\ CleanupReturn(p, op[p], mgmem[p], "0",
                     [page_table EXCEPT ![mgmem[p]] = "released"])
    /\ UNCHANGED <<regvars, taskvars, op, handle, task_state, mapped, nops>>
    /\ UNCHANGED iovars

(* -------------------- strom_ioctl_info_gpu_memory ---------------------- *)
InfoFault(p) ==
    /\ Enter(p, "info", 0)
    /\ Return(p, "-EFAULT")
    /\ UNCHANGED <<segvars, regvars, taskvars, task_state, mapped, nfreed>>
    /\ NoUarg(p)
    /\ UNCHANGED <<filp, f_count, npinned>>

\* page_table->entries: the driver's pages that cover map_length bytes
PageTableEntries(h) == (map_length[h] + page_size[h] - 1) \div page_size[h]

\* page_table->pages[i]->physical_address: the driver's choice, distinct
\* for the pages of one table and not in ascending order
PhysicalAddress(h, i) ==
    map_address[h] + ((3 * i + 1) % (PageTableEntries(h) + 1)) * page_size[h]

Min(a, b) == IF a < b THEN a ELSE b

InfoCountAll(entries, nrooms, fault_at) == Min(entries, fault_at)

\* the addresses the loop has written when it ends: it stops at entries,
\* at karg.nrooms, and at the index where put_user() fails
InfoCount(entries, nrooms, fault_at) ==
    Min(Min(entries, nrooms), fault_at)

\* copy_from_user, then strom_get_mapped_gpu_memory(karg.handle)
Info(p, h, nrooms) ==
    /\ Enter(p, "info", h)
    /\ strom_get_mapped_gpu_memory(p, h, "info_copy", "-ENOENT")
    /\ uout' = [uout EXCEPT ![p] = [NoOut EXCEPT !.nrooms = nrooms]]
    /\ UNCHANGED <<mgmem_alloc, wait_task, map_address, map_offset,
                   map_length, page_size, page_table, regvars, taskvars,
                   task_state, mapped, nfreed, filp, f_count, npinned>>

\* copy_to_user of the header, the loop of put_user over the page table,
\* then strom_put_mapped_gpu_memory(mgmem); put_user fails at index
\* fault_at if the loop gets there
InfoPut(p, copy_ok, fault_at) ==
    LET h       == mgmem[p]
        entries == PageTableEntries(h)
        nrooms  == uout[p].nrooms
        count   == InfoCount(entries, nrooms, fault_at)
        faulted == fault_at < Min(entries, nrooms)
    IN
    /\ pc[p] = "info_copy"
    /\ strom_put_mapped_gpu_memory(p, h)
    /\ uout' = [uout EXCEPT ![p] =
                 [nrooms    |-> nrooms,
                  page_size |-> IF copy_ok THEN page_size[h] ELSE 0,
                  entries   |-> IF copy_ok THEN entries ELSE 0,
                  physical_address |->
                      [i \in 1..count |-> PhysicalAddress(h, i - 1)]]]
    /\ IF PutAssertFails(h)
       THEN Goto(p, "BUG_ON_put") /\ UNCHANGED <<mgmem, dtask, karg, wait_task_saved>>
       ELSE Return(p, IF copy_ok /\ ~faulted THEN "0" ELSE "-EFAULT")
    /\ UNCHANGED <<mgmem_alloc, map_address, map_offset, map_length,
                   page_size, page_table, strom_mgmem_slots, taskvars, op,
                   handle, mapped, nfreed, nops, filp, f_count, npinned>>

(* -------------------- strom_memcpy_ssd2gpu_async ----------------------- *)
SubmitFault(p) ==
    /\ Enter(p, "submit", 0)
    /\ Return(p, "-EFAULT")
    /\ UNCHANGED <<segvars, regvars, taskvars, task_state, mapped, nfreed>>
    /\ NoUarg(p)
    /\ UNCHANGED <<filp, f_count, npinned>>

\* strom_memcpy_ssd2gpu_async with a file descriptor that fget() or
\* source_file_is_supported() rejects: the reference, if taken, is put
SubmitBadFile(p) ==
    /\ Enter(p, "submit", 0)
    /\ \E value \in {"-EBADF", "-ENOTSUPP"} : Return(p, value)
    /\ UNCHANGED <<segvars, regvars, taskvars, task_state, mapped, nfreed>>
    /\ NoUarg(p)
    /\ UNCHANGED <<filp, f_count, npinned>>

SubmitError1Leaks(f, count) == count

\* error_1: if (filp) fput(filp)
SubmitError1(f, count) == IF f # 0 THEN count - 1 ELSE count

\* copy_from_user, fget() when a file is named, then get destination GPU
\* memory; when the handle is not found, error_1
Submit(p, h, fdesc) ==
    LET f == IF fdesc >= 0 THEN 1 ELSE 0 IN
    /\ Enter(p, "submit", h)
    /\ strom_get_mapped_gpu_memory(p, h, "submit_alloc", "-ENOENT")
    /\ IF GetFinds(h)
       THEN /\ filp' = [filp EXCEPT ![p] = f]
            /\ f_count' = f_count + f
       ELSE /\ filp' = [filp EXCEPT ![p] = 0]
            /\ f_count' = SubmitError1(f, f_count + f)
    /\ UNCHANGED <<mgmem_alloc, wait_task, map_address, map_offset,
                   map_length, page_size, page_table, regvars, taskvars,
                   task_state, mapped, nfreed, npinned>>
    /\ NoUarg(p)

\* make strom_dma_task object (kmalloc, the fields, copy_from_user of the
\* chunks), then registration of the strom_dma_task
SubmitRegister(p, chunks) ==
    /\ pc[p] = "submit_alloc"
    /\ \/ /\ GotoRc(p, "submit_error_2", "-ENOMEM")
          /\ UNCHANGED <<taskvars, dtask>>
       \/ \E t \in Tasks :
            LET index == strom_dma_task_index(t) IN
            /\ ~dtask_alloc[t]
            /\ \/ /\ mutex_free(strom_dma_task_mutex, index)
                  /\ dtask_alloc' = [dtask_alloc EXCEPT ![t] = TRUE]
                  /\ dtask_mgmem' = [dtask_mgmem EXCEPT ![t] = mgmem[p]]
                  /\ dtask_filp'  = [dtask_filp EXCEPT ![t] = filp[p]]
                  /\ dtask_wait_task' = [dtask_wait_task EXCEPT ![t] = 0]
                  /\ dtask_chunks' = [dtask_chunks EXCEPT ![t] = chunks]
                  /\ UNCHANGED <<dtask_nitems, dtask_dstate>>
                  /\ strom_dma_task_slots' =
                         list_add(strom_dma_task_slots, index, t)
                  /\ dtask' = [dtask EXCEPT ![p] = t]
                  /\ Goto(p, "dtask_engine")
               \/ /\ GotoRc(p, "submit_error_2", "-EFAULT")
                  /\ UNCHANGED <<dtask_alloc, dtask_mgmem, dtask_wait_task,
                                 dtask_filp, dtask_chunks, dtask_nitems,
                                 dtask_dstate, strom_dma_task_slots, dtask>>
            /\ UNCHANGED strom_dma_task_mutex
    /\ UNCHANGED <<segvars, regvars, op, handle, mgmem, karg,
                   wait_task_saved, task_state, mapped, nfreed, nops>>
    /\ UNCHANGED iovars

\* error_2: strom_put_mapped_gpu_memory(mgmem); error_1; return rc
SubmitError2(p) ==
    /\ pc[p] = "submit_error_2"
    /\ strom_put_mapped_gpu_memory(p, mgmem[p])
    /\ IF PutAssertFails(mgmem[p])
       THEN /\ Goto(p, "BUG_ON_put")
            /\ UNCHANGED <<mgmem, dtask, karg, wait_task_saved, filp,
                           f_count>>
       ELSE /\ Return(p, rc[p])
            /\ filp' = [filp EXCEPT ![p] = 0]
            /\ f_count' = SubmitError1(filp[p], f_count)
    /\ UNCHANGED <<mgmem_alloc, map_address, map_offset, map_length,
                   page_size, page_table, strom_mgmem_slots, taskvars, op,
                   handle, mapped, nfreed, nops, uout, npinned>>

(* -------------------- __strom_memcpy_ssd2gpu_async --------------------- *)
\* nr_pages = (dchunk->length + PAGE_SIZE - 1) / PAGE_SIZE
nr_pages(dchunk) == (dchunk.length + PAGE_SIZE - 1) \div PAGE_SIZE

\* the pages the chunks before index have recorded in dma_pages_list: a
\* memory chunk records its nr_pages, any other chunk none
RECURSIVE PagesBefore(_, _)
PagesBefore(chunks, index) ==
    IF index <= 1 THEN 0
    ELSE PagesBefore(chunks, index - 1)
         + (IF chunks[index - 1].source = "m"
            THEN nr_pages(chunks[index - 1]) ELSE 0)

\* what get_user_pages_fast() may return for the chunk, -1 for an error
PinResults(dchunk) == (-1)..nr_pages(dchunk)

\* if (retval < 0) goto error; else if (retval < nr_pages)
\*     { nitems += retval; goto error; }
PinFails(dchunk, retval) == retval < nr_pages(dchunk)
PinRecorded(dchunk, retval) == IF retval < 0 THEN 0 ELSE retval

\* unsigned subtraction
Sub(a, b) == (a + WordMax - (b % WordMax)) % WordMax

PAGE_MASK == BitNot(PAGE_SIZE - 1)

\* what submit_mem2gpu() is given
Descriptor(src_addr, src_size, dst_addr, dst_size) ==
    [src_addr |-> src_addr, src_size |-> src_size,
     dst_addr |-> dst_addr, dst_size |-> dst_size]

\* init strom_dma_state: nothing merged yet, the destination at offset
\* bytes into the segment.  stop is "BUG" once BUG_ON has fired and
\* "pages[]" once page_table->pages[] has been read past its end.
InitDmaState(h, offset) ==
    LET i == offset \div page_size[h] IN
    [offset          |-> 0,
     curr_dma_addr   |-> 0,
     curr_dma_len    |-> 0,
     curr_dst_offset |-> offset,
     curr_dst_addr   |-> (PhysicalAddress(h, i) + (offset % page_size[h]))
                         % WordMax,
     curr_dst_size   |-> 0,
     tx              |-> <<>>,
     stop            |-> IF i < PageTableEntries(h) THEN "" ELSE "pages[]"]

\* Is it continuous from the last chunks?  If not, submit the last one
\* first; this chunk shall be the lead page of the following chunks
MergeSource(d, src_addr) ==
    IF (d.curr_dma_addr + d.curr_dma_len) % WordMax # src_addr
    THEN [d EXCEPT
            !.tx = Append(@, Descriptor(d.curr_dma_addr, d.curr_dma_len,
                                        d.curr_dst_addr, d.curr_dst_size)),
            !.curr_dma_addr = src_addr,
            !.curr_dma_len  = 0,
            !.curr_dst_addr = (d.curr_dst_addr + d.curr_dst_size) % WordMax,
            !.curr_dst_size = 0]
    ELSE d

\* Does it go across bound of the destination page?  temp_size and
\* this_size are read and never assigned: env gives what they hold.  The
\* statements after the submit that are not complete ("curr_dma_len;",
\* "pagesz -= ;") change nothing.
SplitDestination(d, h, pagesz, tmp_dst_addr, env) ==
    LET end == (d.curr_dst_addr + d.curr_dst_size + pagesz) % WordMax
        tail_dst_addr == BitAnd(end, BitNot(page_size[h] - 1))
    IN
    IF end = tmp_dst_addr THEN d
    ELSE IF tail_dst_addr > d.curr_dst_addr THEN [d EXCEPT !.stop = "BUG"]
    ELSE [d EXCEPT
            !.tx = Append(@, Descriptor(
                       d.curr_dma_addr,
                       (d.curr_dma_len + env.temp_size) % WordMax,
                       d.curr_dst_addr,
                       (d.curr_dst_size + env.this_size) % WordMax)),
            !.curr_dma_addr =
                (d.curr_dma_addr + d.curr_dma_len + env.temp_size) % WordMax]

\* if (offset + length >= PAGE_SIZE) pagesz = PAGE_SIZE - offset;
\* else pagesz = length - offset;
PageSz(offset, length) ==
    IF offset + length >= PAGE_SIZE
    THEN Sub(PAGE_SIZE, offset)
    ELSE Sub(length, offset)

\* offset = ((unsigned long)dchunk->u.host_addr) & PAGE_MASK before the
\* first page of the chunk, offset = 0 before the others
PageOffset(dchunk, i) ==
    IF i = 1 THEN BitAnd(dchunk.host_addr, PAGE_MASK) ELSE 0

\* one turn of the loop over the pages of a memory chunk of length bytes:
\* page is the address dma_map_page() gives for the pinned page
MemPage(d, h, page, length, env) ==
    LET pagesz   == PageSz(d.offset, length)
        src_addr == (page + d.offset) % WordMax
        d1       == MergeSource(d, src_addr)
        to       == (d1.curr_dst_offset + pagesz) % WordMax
        j        == to \div page_size[h]
        tmp_dst_addr == (PhysicalAddress(h, j) + (to % page_size[h])) % WordMax
        d2       == SplitDestination(d1, h, pagesz, tmp_dst_addr, env)
    IN
    IF d.stop # "" THEN d
    ELSE IF j >= PageTableEntries(h) THEN [d1 EXCEPT !.stop = "pages[]"]
    ELSE IF d2.stop # "" THEN d2
    ELSE [d2 EXCEPT
            !.curr_dst_addr   = tmp_dst_addr,
            !.curr_dst_size   = (@ + pagesz) % WordMax,
            !.curr_dst_offset = to,
            !.offset          = 0]

\* the pages of a memory chunk in turn, from the i-th on; before the first
\* one, offset = host_addr & PAGE_MASK.  first is the number of pages
\* pinned for the chunks before.
RECURSIVE MemChunkPages(_, _, _, _, _, _)
MemChunkPages(d, h, dchunk, first, i, env) ==
    IF i > nr_pages(dchunk) THEN d
    ELSE MemChunkPages(
             MemPage(IF i = 1
                     THEN [d EXCEPT !.offset = PageOffset(dchunk, 1)]
                     ELSE d,
                     h, env.pages[first + i], dchunk.length, env),
             h, dchunk, first, i + 1, env)

\* the chunks up to the index-th, each pinned in full
RECURSIVE CopyChunks(_, _, _, _)
CopyChunks(h, chunks, index, env) ==
    IF index = 0 THEN InitDmaState(h, env.offset)
    ELSE LET d == CopyChunks(h, chunks, index - 1, env) IN
         IF chunks[index].source = "m"
         THEN MemChunkPages(d, h, chunks[index],
                            PagesBefore(chunks, index), 1, env)
         ELSE d

Max(a, b) == IF a > b THEN a ELSE b

\* strom_expand_dma_pages(dtask, dpage_old, min_nrooms), kmalloc granted:
\* a new array, empty, of Max(the rooms of the old one, or 2 * nchunks + 10
\* when there is none, min_nrooms) rooms.  dpages is NULL when nrooms = 0.
strom_expand_dma_pages(nchunks, dpage_old, min_nrooms) ==
    [nitems |-> 0,
     nrooms |-> Max(IF dpage_old.nrooms = 0 THEN 2 * nchunks + 10
                    ELSE dpage_old.nrooms,
                    min_nrooms)]

\* dpages after the chunks before index: a memory chunk expands the array
\* when there is none or it has no room for nr_pages, and records its pages
RECURSIVE DpagesBefore(_, _)
DpagesBefore(chunks, index) ==
    IF index <= 1 THEN NoDpages
    ELSE LET dpages == DpagesBefore(chunks, index - 1)
             dchunk == chunks[index - 1]
             grown  == IF \/ dpages.nrooms = 0
                          \/ dpages.nitems + nr_pages(dchunk) > dpages.nrooms
                       THEN strom_expand_dma_pages(Len(chunks), dpages,
                                                   2 * nr_pages(dchunk))
                       ELSE dpages
         IN IF dchunk.source = "m"
            THEN [grown EXCEPT !.nitems = @ + nr_pages(dchunk)]
            ELSE dpages

\* end = dchunk->file_pos + dchunk->length
FileEnd(dchunk) == dchunk.host_addr + dchunk.length

\* while (pos < end), with pos = dchunk->file_pos, is entered
FileLoops(dchunk) ==
    dchunk.source = "f" /\ dchunk.host_addr < FileEnd(dchunk)

\* The loop over the chunks.  at is the index of the chunk at which the
\* loop leaves the straight path: the memory chunk whose pin returns
\* retval, or the file chunk whose loop over the file pages is entered;
\* the memory chunks before it were pinned in full and their pages
\* submitted, the file chunks before it are empty.  With
\* at = Len(chunks) + 1 no chunk is left.  The label of "goto error" is not defined in the source: the
\* tail of the function, its only exit, is where the jump is taken to
\* lead.  env is what the function reads and the request does not decide:
\* dtask->offset, the addresses of the pinned pages, temp_size, this_size.
DtaskEngine(p, at, retval, env) ==
    LET t      == dtask[p]
        chunks == dtask_chunks[t]
        ends   == at = Len(chunks) + 1
        pinned == IF ends
                  THEN PagesBefore(chunks, at)
                  ELSE PagesBefore(chunks, at)
                       + PinRecorded(chunks[at], retval)
        d      == CopyChunks(dtask_mgmem[t], chunks, at - 1, env)
        loops  == ~ends /\ FileLoops(chunks[at])
    IN
    /\ pc[p] = "dtask_engine"
    /\ at \in 1..(Len(chunks) + 1)
    /\ \A k \in 1..(at - 1) : ~FileLoops(chunks[k])
    /\ IF ends \/ loops THEN retval = 0
       ELSE /\ chunks[at].source = "m"
            /\ retval \in PinResults(chunks[at])
            /\ PinFails(chunks[at], retval)
    /\ dtask_nitems' = [dtask_nitems EXCEPT ![t] = pinned]
    /\ npinned' = npinned + pinned
    /\ dtask_dstate' = [dtask_dstate EXCEPT ![t] =
                          [offset |-> IF chunks = <<>> THEN 0 ELSE env.offset,
                           pages  |-> SubSeq(env.pages, 1, pinned),
                           tx     |-> d.tx,
                           pos    |-> IF loops THEN chunks[at].host_addr
                                      ELSE 0,
                           dpages |-> IF loops THEN DpagesBefore(chunks, at)
                                      ELSE NoDpages,
                           turns  |-> 0]]
    /\ Goto(p, CASE d.stop = "BUG"     -> "BUG_ON_copy"
                 [] d.stop = "pages[]" -> "fault_copy"
                 [] loops /\ dtask_filp[t] = 0 -> "fault_filp"
                 [] loops              -> "dtask_file_loop"
                 [] OTHER              -> "dtask_cleanup")
    /\ UNCHANGED <<segvars, regvars, dtask_alloc, dtask_mgmem,
                   dtask_wait_task, dtask_filp, dtask_chunks,
                   strom_dma_task_slots, strom_dma_task_mutex, op, locvars,
                   task_state, mapped, nfreed, nops, filp, uout, f_count>>

\* if (!dpages || dpages->nitems == dpages->nrooms)
FileNeedsRooms(dpages) ==
    dpages.nrooms = 0 \/ dpages.nitems = dpages.nrooms

\* pos after one turn of while (pos < end): the body assigns nothing to it
FilePosAfter(pos) == pos

\* One turn of while (pos < end) over a file chunk.  found: find_get_page()
\* returns the page, and a reference on it; expand_ok: the kmalloc of
\* strom_expand_dma_pages() is granted.  A page that is found is recorded
\* in dpages; when the array cannot grow, put_page() and goto error.  A
\* page that is not found is left to a path that is not written.  turns
\* counts the turns taken.
FileTurn(p, found, expand_ok) ==
    LET t      == dtask[p]
        s      == dtask_dstate[t]
        chunks == dtask_chunks[t]
        dchunk == chunks[CHOOSE k \in DOMAIN chunks :
                            /\ FileLoops(chunks[k])
                            /\ \A j \in 1..(k - 1) : ~FileLoops(chunks[j])]
        grown  == IF FileNeedsRooms(s.dpages)
                  THEN strom_expand_dma_pages(Len(chunks), s.dpages, 20)
                  ELSE s.dpages
        fails  == found /\ FileNeedsRooms(s.dpages) /\ ~expand_ok
        pos    == FilePosAfter(s.pos)
    IN
    /\ pc[p] = "dtask_file_loop"
    /\ s.turns < MaxTurns
    /\ found \/ expand_ok
    /\ dtask_dstate' = [dtask_dstate EXCEPT ![t] =
           [s EXCEPT !.turns  = @ + 1,
                     !.pos    = pos,
                     !.dpages = IF found /\ ~fails
                                THEN [grown EXCEPT !.nitems = @ + 1]
                                ELSE @]]
    /\ dtask_nitems' = [dtask_nitems EXCEPT ![t] =
                           IF found /\ ~fails THEN @ + 1 ELSE @]
    /\ npinned' = IF found /\ ~fails THEN npinned + 1 ELSE npinned
    /\ Goto(p, IF fails \/ ~(pos < FileEnd(dchunk))
                THEN "dtask_cleanup" ELSE "dtask_file_loop")
    /\ UNCHANGED <<segvars, regvars, dtask_alloc, dtask_mgmem,
                   dtask_wait_task, dtask_filp, dtask_chunks,
                   strom_dma_task_slots, strom_dma_task_mutex, op, locvars,
                   task_state, mapped, nfreed, nops, filp, uout, f_count>>

(* ----------------------- strom_cleanup_dma_task ------------------------ *)
\* strom_cleanup_dma_task(dma_task_id) called for a copy that has been
\* kicked, from the context in which its completion is reported
Completion(p, dma_task_id) ==
    /\ Enter(p, "complete", dma_task_id)
    /\ \A q \in Procs : pc[q] = "dtask_engine" => dtask[q] # dma_task_id
    /\ dtask' = [dtask EXCEPT ![p] = dma_task_id]
    /\ Goto(p, "dtask_cleanup")
    /\ UNCHANGED <<segvars, regvars, taskvars, mgmem, karg, wait_task_saved,
                   task_state, mapped, nfreed>>
    /\ NoUarg(p)
    /\ UNCHANGED <<filp, f_count, npinned>>

\* strom_cleanup_dma_task() returns nothing; called at the end of
\* __strom_memcpy_ssd2gpu_async(), that one returns -EINVAL
CleanupReturns(p) == IF op[p] = "submit" THEN "-EINVAL" ELSE "void"

DtaskFindsAny(dma_task_id) == TRUE

\* list_for_each_entry(dtask, slot, chain) finds dma_task_id
DtaskFinds(dma_task_id) ==
    SlotFind(strom_dma_task_slots, strom_dma_task_index(dma_task_id),
             dma_task_id)

\* __strom_memcpy_ssd2gpu_async() ends in strom_cleanup_dma_task(): the
\* search under the task mutex and list_del
DtaskCleanupSearch(p) ==
    LET index == strom_dma_task_index(dtask[p]) IN
    /\ pc[p] = "dtask_cleanup"
    /\ mutex_free(strom_dma_task_mutex, index)
    /\ IF DtaskFinds(dtask[p])
       THEN /\ strom_dma_task_slots' =
                   list_del(strom_dma_task_slots, index, dtask[p])
            /\ Goto(p, "dtask_release")
            /\ UNCHANGED <<mgmem, dtask, karg, wait_task_saved>>
       ELSE /\ Return(p, CleanupReturns(p))
            /\ UNCHANGED strom_dma_task_slots
    /\ UNCHANGED <<segvars, regvars, dtask_alloc, dtask_mgmem,
                   dtask_wait_task, dtask_filp, dtask_chunks, dtask_nitems,
                   dtask_dstate, strom_dma_task_mutex, op, handle,
                   task_state, mapped, nfreed, nops>>
    /\ UNCHANGED iovars

\* release relevant resources: strom_put_mapped_gpu_memory(dtask->mgmem)
DtaskRelease(p) ==
    LET t == dtask[p] IN
    /\ pc[p] = "dtask_release"
    /\ strom_put_mapped_gpu_memory(p, dtask_mgmem[t])
    /\ IF PutAssertFails(dtask_mgmem[t])
       THEN Goto(p, "BUG_ON_put")
       ELSE Goto(p, "dtask_free")
    /\ UNCHANGED <<mgmem_alloc, map_address, map_offset, map_length,
                   page_size, page_table, strom_mgmem_slots, taskvars, op,
                   locvars, mapped, nfreed, nops>>
    /\ UNCHANGED iovars

CleanupWakesNobody(t) == FALSE

\* if (dtask->wait_task)
CleanupWakes(t) == dtask_wait_task[t] # 0

\* the pages of dma_pages_list that strom_cleanup_dma_task hands back
CleanupPutsPages(nitems) == 0

\* if (dtask->filp) fput(dtask->filp); if (dtask->wait_task)
\* wake_up_process(dtask->wait_task); kfree(dtask); then
\* __strom_memcpy_ssd2gpu_async() returns -EINVAL and
\* strom_memcpy_ssd2gpu_async() returns it as the task id
DtaskFree(p) ==
    LET t == dtask[p] IN
    /\ pc[p] = "dtask_free"
    /\ f_count' = f_count - dtask_filp[t]
    /\ npinned' = npinned - CleanupPutsPages(dtask_nitems[t])
    /\ task_state' = IF CleanupWakes(t)
                     THEN [task_state EXCEPT ![dtask_wait_task[t]] = "RUNNING"]
                     ELSE task_state
    /\ dtask_alloc' = [dtask_alloc EXCEPT ![t] = FALSE]
    /\ dtask_mgmem' = [dtask_mgmem EXCEPT ![t] = 0]
    /\ dtask_filp' = [dtask_filp EXCEPT ![t] = 0]
    /\ dtask_wait_task' = [dtask_wait_task EXCEPT ![t] = 0]
    /\ dtask_chunks' = [dtask_chunks EXCEPT ![t] = <<>>]
    /\ dtask_nitems' = [dtask_nitems EXCEPT ![t] = 0]
    /\ dtask_dstate' = [dtask_dstate EXCEPT ![t] = NoDstate]
    /\ filp' = [filp EXCEPT ![p] = 0]
    /\ Return(p, CleanupReturns(p))
    /\ UNCHANGED <<segvars, regvars, strom_dma_task_slots,
                   strom_dma_task_mutex, op, handle, mapped, nfreed, nops,
                   uout>>

(* --------------------- strom_memcpy_ssd2gpu_wait ----------------------- *)
\* strom_ioctl_memcpy_ssd2gpu_wait: copy_from_user fails
WaitFault(p) ==
    /\ Enter(p, "wait", 0)
    /\ Return(p, "-EFAULT")
    /\ UNCHANGED <<segvars, regvars, taskvars, task_state, mapped, nfreed>>
    /\ NoUarg(p)
    /\ UNCHANGED <<filp, f_count, npinned>>

\* what the wait returns when no task of that id is in the slot
WaitNotFound == "-ENOENT"

\* mutex_lock, the search; when the task is found the caller installs
\* itself as dtask->wait_task, set_current_state(TASK_UNINTERRUPTIBLE),
\* mutex_unlock; when it is not, mutex_unlock and the return
Wait(p, dma_task_id) ==
    LET index == strom_dma_task_index(dma_task_id) IN
    /\ Enter(p, "wait", dma_task_id)
    /\ mutex_free(strom_dma_task_mutex, index)
    /\ IF SlotFind(strom_dma_task_slots, index, dma_task_id)
       THEN /\ wait_task_saved' =
                   [wait_task_saved EXCEPT ![p] = dtask_wait_task[dma_task_id]]
            /\ dtask_wait_task' =
                   [dtask_wait_task EXCEPT ![dma_task_id] = p]
            /\ task_state' = [task_state EXCEPT ![p] = "UNINTERRUPTIBLE"]
            /\ strom_dma_task_mutex' =
                   mutex_unlock(strom_dma_task_mutex, index, p)
            /\ Goto(p, "wait_schedule")
            /\ UNCHANGED <<mgmem, dtask, karg>>
       ELSE /\ Return(p, WaitNotFound)
            /\ UNCHANGED <<dtask_wait_task, task_state,
                           strom_dma_task_mutex>>
    /\ UNCHANGED <<segvars, regvars, dtask_alloc, dtask_mgmem, dtask_filp,
                   dtask_chunks, dtask_nitems, dtask_dstate,
                   strom_dma_task_slots, mapped, nfreed>>
    /\ NoUarg(p)
    /\ UNCHANGED <<filp, f_count, npinned>>

\* schedule() returns once the process has been woken; then
\* if (wait_task_saved) wake_up_process(wait_task_saved)
WaitSchedule(p) ==
    /\ pc[p] = "wait_schedule"
    /\ task_state[p] = "RUNNING"
    /\ task_state' = IF wait_task_saved[p] # 0
                     THEN [task_state EXCEPT ![wait_task_saved[p]] = "RUNNING"]
                     ELSE task_state
    /\ Goto(p, "wait_recheck")
    /\ UNCHANGED <<segvars, regvars, taskvars, op, locvars, mapped, nfreed,
                   nops>>
    /\ UNCHANGED iovars

\* BUG_ON(dtask->dma_task_id == dma_task_id) for the entries of the slot
WaitAssertFails(dma_task_id) ==
    SlotFind(strom_dma_task_slots, strom_dma_task_index(dma_task_id),
             dma_task_id)

\* mutex_lock, the assertion over the slot, mutex_unlock, return 0
WaitRecheck(p) ==
    LET index == strom_dma_task_index(handle[p]) IN
    /\ pc[p] = "wait_recheck"
    /\ mutex_free(strom_dma_task_mutex, index)
    /\ IF WaitAssertFails(handle[p])
       THEN /\ strom_dma_task_mutex' =
                   [strom_dma_task_mutex EXCEPT ![index] = p]
            /\ Goto(p, "BUG_ON_wait")
            /\ UNCHANGED <<mgmem, dtask, karg, wait_task_saved>>
       ELSE /\ Return(p, "0")
            /\ UNCHANGED strom_dma_task_mutex
    /\ UNCHANGED <<segvars, regvars, dtask_alloc, dtask_mgmem,
                   dtask_wait_task, dtask_filp, dtask_chunks, dtask_nitems,
                   dtask_dstate, strom_dma_task_slots, op, handle, task_state,
                   mapped, nfreed, nops>>
    /\ UNCHANGED iovars

(* --------------------------- specification ----------------------------- *)
\* where the chunk loop of a request may stop, and what a pin may return
RequestStops(requests) == UNION {1..(Len(r) + 1) : r \in requests}
PinRetvals(requests) ==
    {0} \cup UNION {UNION {PinResults(r[i]) : i \in DOMAIN r} : r \in requests}

Next ==
    \/ \E p \in Procs, vaddress \in VAddrs, length \in Lengths :
         MapBegin(p, vaddress, length)
    \/ \E p \in Procs, cls \in PageClasses, put_user_ok \in BOOLEAN :
         MapPageSize(p, cls, put_user_ok)
    \/ \E p \in Procs : MapAttach(p)
    \/ \E p \in Procs : UnmapFault(p)
    \/ \E p \in Procs, h \in Handles : Unmap(p, h)
    \/ \E p \in Procs, h \in Handles : Revoke(p, h)
    \/ \E p \in Procs : CleanupSchedule(p)
    \/ \E p \in Procs : CleanupRelock(p)
    \/ \E p \in Procs : CleanupFree(p)
    \/ \E p \in Procs : InfoFault(p)
    \/ \E p \in Procs, h \in Handles, nrooms \in NRooms : Info(p, h, nrooms)
    \/ \E p \in Procs, copy_ok \in BOOLEAN, fault_at \in FaultAts :
         InfoPut(p, copy_ok, fault_at)
    \/ \E p \in Procs : SubmitFault(p)
    \/ \E p \in Procs : SubmitBadFile(p)
    \/ \E p \in Procs, h \in Handles, fdesc \in FDescs : Submit(p, h, fdesc)
    \/ \E p \in Procs : SubmitError2(p)
    \/ \E p \in Procs, chunks \in Requests : SubmitRegister(p, chunks)
    \/ \E p \in Procs, at \in RequestStops(Requests),
            retval \in PinRetvals(Requests), env \in Envs :
         DtaskEngine(p, at, retval, env)
    \/ \E p \in Procs : DtaskCleanupSearch(p)
    \/ \E p \in Procs : DtaskRelease(p)
    \/ \E p \in Procs : DtaskFree(p)

Spec == Init /\ [][Next]_vars

\* the map arithmetic on a wide choice of requests, one context at a time
NextArith ==
    \/ \E vaddress \in VAddrsWide, length \in LengthsWide :
         MapBegin(1, vaddress, length)
    \/ \E cls \in DriverPageSizes, put_user_ok \in BOOLEAN :
         MapPageSize(1, cls, put_user_ok)
    \/ MapAttach(1)
    \/ \E h \in Handles : Unmap(1, h)
    \/ CleanupFree(1)

SpecArith == Init /\ [][NextArith]_vars

\* The specifications of one entry point with a wide choice of inputs
\* start where the module has just been loaded or where context 1 has
\* mapped segment 1, of a page size in classes, and returned; no segment
\* is mapped or unmapped afterwards.
InitOf(classes) ==
    \E vaddress \in VAddrs, length \in Lengths, n \in {0, 1},
       cls \in classes :
      LET is(h) == n = 1 /\ h = 1 IN
      /\ mgmem_alloc = [h \in Handles |-> is(h)]
      /\ refcnt      = [h \in Handles |-> 0]
      /\ wait_task   = [h \in Handles |-> 0]
      /\ map_address = [h \in Handles |->
                           IF is(h) THEN MapAddress(vaddress) ELSE 0]
      /\ map_offset  = [h \in Handles |->
                           IF is(h) THEN MapOffset(vaddress) ELSE 0]
      /\ map_length  = [h \in Handles |->
                           IF is(h) THEN MapLength(vaddress, length) ELSE 0]
      /\ page_size   = [h \in Handles |->
                           IF is(h) THEN PageSizeBytes(cls) ELSE 0]
      /\ page_table  = [h \in Handles |-> IF is(h) THEN "pinned" ELSE "none"]
      /\ strom_mgmem_slots =
             [i \in MgmemSlots |->
                 {h \in Handles :
                     is(h) /\ strom_mapped_gpu_memory_index(h) = i}]
      /\ strom_mgmem_mutex = [i \in MgmemSlots |-> 0]
      /\ dtask_alloc     = [t \in Tasks |-> FALSE]
      /\ dtask_mgmem     = [t \in Tasks |-> 0]
      /\ dtask_wait_task = [t \in Tasks |-> 0]
      /\ dtask_filp      = [t \in Tasks |-> 0]
      /\ dtask_chunks    = [t \in Tasks |-> <<>>]
      /\ dtask_nitems    = [t \in Tasks |-> 0]
      /\ dtask_dstate    = [t \in Tasks |-> NoDstate]
      /\ strom_dma_task_slots = [i \in TaskSlots |-> {}]
      /\ strom_dma_task_mutex = [i \in TaskSlots |-> 0]
      /\ pc     = [p \in Procs |-> IF n = 1 /\ p = 1 THEN "ret" ELSE "idle"]
      /\ op     = [p \in Procs |-> IF n = 1 /\ p = 1 THEN "map" ELSE "none"]
      /\ rc     = [p \in Procs |-> IF n = 1 /\ p = 1 THEN "0" ELSE "none"]
      /\ handle = [p \in Procs |-> IF n = 1 /\ p = 1 THEN 1 ELSE 0]
      /\ mgmem  = [p \in Procs |-> 0]
      /\ dtask  = [p \in Procs |-> 0]
      /\ karg   = [p \in Procs |-> NoKarg]
      /\ wait_task_saved = [p \in Procs |-> 0]
      /\ task_state = [p \in Procs |-> "RUNNING"]
      /\ filp    = [p \in Procs |-> 0]
      /\ uout    = [p \in Procs |-> NoOut]
      /\ f_count = 0
      /\ npinned = 0
      /\ mapped = {h \in Handles : is(h)}
      /\ nfreed = [h \in Handles |-> 0]
      /\ nops   = n

InitTask == InitOf({"64KB"})

NextTask ==
    \/ \E p \in Procs, h \in Handles, fdesc \in FDescs : Submit(p, h, fdesc)
    \/ \E p \in Procs : SubmitError2(p)
    \/ \E p \in Procs, chunks \in RequestsWide : SubmitRegister(p, chunks)
    \/ \E p \in Procs, at \in RequestStops(RequestsWide),
            retval \in PinRetvals(RequestsWide), env \in Envs :
         DtaskEngine(p, at, retval, env)
    \/ \E p \in Procs : DtaskCleanupSearch(p)
    \/ \E p \in Procs : DtaskRelease(p)
    \/ \E p \in Procs : DtaskFree(p)

SpecTask == InitTask /\ [][NextTask]_vars

\* the argument handling of submit: every way its copy-in, its source file
\* and its destination lookup end, each task with the empty request
NextLookup ==
    \/ \E p \in Procs : SubmitFault(p)
    \/ \E p \in Procs : SubmitBadFile(p)
    \/ \E p \in Procs, h \in Handles, fdesc \in FDescsWide :
         Submit(p, h, fdesc)
    \/ \E p \in Procs : SubmitError2(p)
    \/ \E p \in Procs, chunks \in Requests : SubmitRegister(p, chunks)
    \/ \E p \in Procs, at \in RequestStops(Requests),
            retval \in PinRetvals(Requests), env \in Envs :
         DtaskEngine(p, at, retval, env)
    \/ \E p \in Procs : DtaskCleanupSearch(p)
    \/ \E p \in Procs : DtaskRelease(p)
    \/ \E p \in Procs : DtaskFree(p)

SpecLookup == InitTask /\ [][NextLookup]_vars

\* the waits for copy tasks, each task with the empty request
NextWait ==
    \/ \E p \in Procs, h \in Handles, fdesc \in FDescs : Submit(p, h, fdesc)
    \/ \E p \in Procs : SubmitError2(p)
    \/ \E p \in Procs, chunks \in Requests : SubmitRegister(p, chunks)
    \/ \E p \in Procs, at \in RequestStops(Requests),
            retval \in PinRetvals(Requests), env \in Envs :
         DtaskEngine(p, at, retval, env)
    \/ \E p \in Procs : DtaskCleanupSearch(p)
    \/ \E p \in Procs : DtaskRelease(p)
    \/ \E p \in Procs : DtaskFree(p)
    \/ \E p \in Procs : WaitFault(p)
    \/ \E p \in Procs, dma_task_id \in Tasks : Wait(p, dma_task_id)
    \/ \E p \in Procs : WaitSchedule(p)
    \/ \E p \in Procs : WaitRecheck(p)

SpecWait == InitTask /\ [][NextWait]_vars

\* the info ioctl with a wide choice of buffer sizes and faults
NextInfo ==
    \/ \E p \in Procs : InfoFault(p)
    \/ \E p \in Procs, h \in Handles, nrooms \in NRoomsWide :
         Info(p, h, nrooms)
    \/ \E p \in Procs, copy_ok \in BOOLEAN, fault_at \in FaultAtsWide :
         InfoPut(p, copy_ok, fault_at)

SpecInfo == InitTask /\ [][NextInfo]_vars

\* the copy of one task after another, submitted by context 1, with a
\* wide choice of chunks, page addresses and destinations
InitCopy == InitOf({"4KB", "64KB"})

NextCopy ==
    \/ \E h \in Handles, fdesc \in FDescs : Submit(1, h, fdesc)
    \/ SubmitError2(1)
    \/ \E chunks \in RequestsCopy : SubmitRegister(1, chunks)
    \/ \E at \in RequestStops(RequestsCopy),
          retval \in PinRetvals(RequestsCopy), env \in EnvsCopy :
         DtaskEngine(1, at, retval, env)
    \/ DtaskCleanupSearch(1)
    \/ DtaskRelease(1)
    \/ DtaskFree(1)

SpecCopy == InitCopy /\ [][NextCopy]_vars

\* the teardowns of a segment and the waits for a task, the two places
\* where a context sleeps, with the submits that make them sleep
NextSleep ==
    \/ \E p \in Procs, h \in Handles : Unmap(p, h)
    \/ \E p \in Procs, h \in Handles : Revoke(p, h)
    \/ \E p \in Procs : CleanupSchedule(p)
    \/ \E p \in Procs : CleanupRelock(p)
    \/ \E p \in Procs : CleanupFree(p)
    \/ \E p \in Procs, h \in Handles, fdesc \in FDescs : Submit(p, h, fdesc)
    \/ \E p \in Procs : SubmitError2(p)
    \/ \E p \in Procs, chunks \in Requests : SubmitRegister(p, chunks)
    \/ \E p \in Procs, at \in RequestStops(Requests),
            retval \in PinRetvals(Requests), env \in Envs :
         DtaskEngine(p, at, retval, env)
    \/ \E p \in Procs : DtaskCleanupSearch(p)
    \/ \E p \in Procs : DtaskRelease(p)
    \/ \E p \in Procs : DtaskFree(p)
    \/ \E p \in Procs, dma_task_id \in Tasks : Wait(p, dma_task_id)
    \/ \E p \in Procs : WaitSchedule(p)
    \/ \E p \in Procs : WaitRecheck(p)

SpecSleep == InitTask /\ [][NextSleep]_vars

\* The completion of one copy reported more than once: context 1 has
\* submitted a task with the empty request on segment 1, with or without a
\* source file, and has reached strom_cleanup_dma_task(); the other
\* contexts call it for the same task, or wait for the task.
InitCompletion ==
    \E vaddress \in VAddrs, length \in Lengths, f \in {0, 1} :
      /\ mgmem_alloc = [h \in Handles |-> h = 1]
      /\ refcnt      = [h \in Handles |-> IF h = 1 THEN 1 ELSE 0]
      /\ wait_task   = [h \in Handles |-> 0]
      /\ map_address = [h \in Handles |->
                           IF h = 1 THEN MapAddress(vaddress) ELSE 0]
      /\ map_offset  = [h \in Handles |->
                           IF h = 1 THEN MapOffset(vaddress) ELSE 0]
      /\ map_length  = [h \in Handles |->
                           IF h = 1 THEN MapLength(vaddress, length) ELSE 0]
      /\ page_size   = [h \in Handles |->
                           IF h = 1 THEN PageSizeBytes("64KB") ELSE 0]
      /\ page_table  = [h \in Handles |-> IF h = 1 THEN "pinned" ELSE "none"]
      /\ strom_mgmem_slots =
             [i \in MgmemSlots |->
                 IF strom_mapped_gpu_memory_index(1) = i THEN {1} ELSE {}]
      /\ strom_mgmem_mutex = [i \in MgmemSlots |-> 0]
      /\ dtask_alloc     = [t \in Tasks |-> t = 1]
      /\ dtask_mgmem     = [t \in Tasks |-> IF t = 1 THEN 1 ELSE 0]
      /\ dtask_wait_task = [t \in Tasks |-> 0]
      /\ dtask_filp      = [t \in Tasks |-> IF t = 1 THEN f ELSE 0]
      /\ dtask_chunks    = [t \in Tasks |-> <<>>]
      /\ dtask_nitems    = [t \in Tasks |-> 0]
      /\ dtask_dstate    = [t \in Tasks |-> NoDstate]
      /\ strom_dma_task_slots =
             [i \in TaskSlots |->
                 IF strom_dma_task_index(1) = i THEN {1} ELSE {}]
      /\ strom_dma_task_mutex = [i \in TaskSlots |-> 0]
      /\ pc     = [p \in Procs |-> IF p = 1 THEN "dtask_cleanup" ELSE "idle"]
      /\ op     = [p \in Procs |-> IF p = 1 THEN "submit" ELSE "none"]
      /\ rc     = [p \in Procs |-> "none"]
      /\ handle = [p \in Procs |-> IF p = 1 THEN 1 ELSE 0]
      /\ mgmem  = [p \in Procs |-> IF p = 1 THEN 1 ELSE 0]
      /\ dtask  = [p \in Procs |-> IF p = 1 THEN 1 ELSE 0]
      /\ karg   = [p \in Procs |-> NoKarg]
      /\ wait_task_saved = [p \in Procs |-> 0]
      /\ task_state = [p \in Procs |-> "RUNNING"]
      /\ filp    = [p \in Procs |-> IF p = 1 THEN f ELSE 0]
      /\ uout    = [p \in Procs |-> NoOut]
      /\ f_count = f
      /\ npinned = 0
      /\ mapped = {1}
      /\ nfreed = [h \in Handles |-> 0]
      /\ nops   = 2

NextCompletion ==
    \/ \E p \in Procs, dma_task_id \in Tasks : Completion(p, dma_task_id)
    \/ \E p \in Procs : DtaskCleanupSearch(p)
    \/ \E p \in Procs : DtaskRelease(p)
    \/ \E p \in Procs : DtaskFree(p)
    \/ \E p \in Procs, dma_task_id \in Tasks : Wait(p, dma_task_id)
    \/ \E p \in Procs : WaitSchedule(p)
    \/ \E p \in Procs : WaitRecheck(p)

SpecCompletion == InitCompletion /\ [][NextCompletion]_vars

\* the chunk loop of one task after another, submitted by context 1, on
\* chunks of every source, aligned or not
NextChunks ==
    \/ \E h \in Handles, fdesc \in FDescsWide : Submit(1, h, fdesc)
    \/ SubmitError2(1)
    \/ \E chunks \in RequestsChunks : SubmitRegister(1, chunks)
    \/ \E at \in RequestStops(RequestsChunks),
          retval \in PinRetvals(RequestsChunks), env \in EnvsChunks :
         DtaskEngine(1, at, retval, env)
    \/ \E found, expand_ok \in BOOLEAN : FileTurn(1, found, expand_ok)
    \/ DtaskCleanupSearch(1)
    \/ DtaskRelease(1)
    \/ DtaskFree(1)

SpecChunks == InitTask /\ [][NextChunks]_vars

(* ------------------------------ properties ----------------------------- *)
MapPcs     == {"map_page_size", "map_attach"}
CleanupPcs == {"cleanup_schedule", "cleanup_relock", "cleanup_free",
               "BUG_ON_cleanup"}
HolderPcs  == {"info_copy", "submit_alloc", "submit_error_2",
               "dtask_engine", "dtask_cleanup", "dtask_release",
               "BUG_ON_put"}

\* the contexts that hold a reference to segment h
HoldersIn(pcs, ptrs, h) == {p \in Procs : pcs[p] \in HolderPcs /\ ptrs[p] = h}
Holders(h) == HoldersIn(pc, mgmem, h)

\* the contexts that found h in the registry and are tearing it down
Teardowns(h) == {p \in Procs : pc[p] \in CleanupPcs /\ mgmem[p] = h}

\* p is the context whose call this step is
Entering(p) ==
    /\ InUserSpace(p)
    /\ \A q \in Procs : q < p => ~InUserSpace(q)
    /\ nops' > nops

\* p returns from entry point name in this step
Returns(p, name) ==
    /\ pc'[p] = "ret"
    /\ op'[p] = name
    /\ pc[p] # "ret" \/ Entering(p)

\* p calls entry point name on handle h in this step
Calls(p, name, h) ==
    /\ Entering(p)
    /\ op'[p] = name
    /\ handle'[p] = h

(* C1: a segment's page table is released and its entry freed only when the
   entry is unlinked from the registry and its refcnt is 0, and a context
   that holds a reference never has a freed segment or a page table this
   module has released. *)
C1_Released(h) ==
    \/ nfreed'[h] > nfreed[h]
    \/ mgmem_alloc[h] /\ ~mgmem_alloc'[h]

C1_HoldersSeeLiveSegment ==
    \A h \in Handles :
        Holders(h) # {} => mgmem_alloc[h] /\ page_table[h] # "released"

C1_ReleaseOnlyUnlinkedUnreferenced ==
    /\ []C1_HoldersSeeLiveSegment
    /\ [][\A h \in Handles :
            C1_Released(h) =>
                /\ h \notin Registry
                /\ refcnt[h] = 0
                /\ Holders(h) = {}]_vars

\* a teardown has returned 0 and its segment is released and freed
C1_Witness ==
    \E p \in Procs :
        /\ pc[p] = "ret" /\ op[p] \in {"unmap", "revoke"} /\ rc[p] = "0"
        /\ nfreed[handle[p]] = 1
        /\ ~mgmem_alloc[handle[p]]

(* C2: a teardown that had to wait for the holders of its segment is woken
   by the last release and goes on to release the page table and return 0;
   it never stops at an assertion. *)
C2_TeardownCompletesAfterDrain ==
    \A p \in Procs :
        op[p] \in {"unmap", "revoke"} => pc[p] # "BUG_ON_cleanup"

(* C3: while a segment is allocated but not linked in the registry (from the
   unlink of its teardown on), an acquire of its handle returns not-found,
   its refcnt does not grow and no context joins its holders. *)
C3_UnlinkedNotAcquirable ==
    [][\A h \in Handles :
          (mgmem_alloc[h] /\ h \notin Registry) =>
              /\ refcnt'[h] <= refcnt[h]
              /\ HoldersIn(pc', mgmem', h) \subseteq Holders(h)
              /\ \A p \in Procs :
                    (Calls(p, "info", h) \/ Calls(p, "submit", h)) =>
                        pc'[p] = "ret" /\ rc'[p] = "-ENOENT"]_vars

\* an acquire has returned not-found for a segment that a waiting teardown
\* has unlinked and another context still holds
C3_Witness ==
    \E p, q, r \in Procs :
        /\ pc[p] = "cleanup_schedule"
        /\ pc[q] = "ret" /\ op[q] \in {"info", "submit"}
        /\ handle[q] = mgmem[p] /\ rc[q] = "-ENOENT"
        /\ r \in Holders(mgmem[p])

(* C4: the registry holds exactly the handles a successful map has returned
   and no unmap or revocation has taken since, each of them a live entry,
   and the handle of an unmap is not in the registry when the unmap
   returns. *)
C4_RegistryIsMappedSet ==
    /\ [](Registry = mapped /\ \A h \in Registry : mgmem_alloc[h])
    /\ [][\A p \in Procs :
            Returns(p, "unmap") /\ handle'[p] # 0 =>
                handle'[p] \notin RegistryOf(strom_mgmem_slots')]_vars

\* an unmap of a mapped handle has returned 0 and the handle is not
\* registered
C4_Witness ==
    \E p \in Procs :
        /\ pc[p] = "ret" /\ op[p] = "unmap" /\ rc[p] = "0"
        /\ handle[p] \notin Registry
        /\ mapped = {}

(* C5: the refcnt of a segment is never negative: it is the number of
   contexts that hold a reference, and the assertion of release never
   fires. *)
C5_RefcntCountsHolders ==
    /\ \A h \in Handles :
          /\ refcnt[h] >= 0
          /\ mgmem_alloc[h] => refcnt[h] = Cardinality(Holders(h))
    /\ \A p \in Procs : pc[p] # "BUG_ON_put"

\* two holders of one segment, one of them a task about to release
C5_Witness ==
    \E h \in Handles :
        /\ refcnt[h] = 2
        /\ \E p \in Holders(h) : pc[p] = "dtask_release"
        /\ \E p \in Holders(h) : pc[p] = "info_copy"

(* C6: an unmap of a handle that is not in the registry returns -ENOENT,
   releases nothing and leaves the registry and every segment's fields,
   refcnt and waiter included, as they were. *)
C6_UnmapOfUnregistered ==
    [][\A p \in Procs, h \in Handles :
          Calls(p, "unmap", h) /\ h \notin Registry =>
              /\ pc'[p] = "ret"
              /\ rc'[p] = "-ENOENT"
              /\ UNCHANGED <<segvars, regvars, nfreed>>]_vars

\* an unmap of a handle whose segment a teardown has already released and
\* freed is told not-found
C6_Witness ==
    \E p \in Procs :
        /\ pc[p] = "ret" /\ op[p] = "unmap" /\ rc[p] = "-ENOENT"
        /\ nfreed[handle[p]] = 1
        /\ ~mgmem_alloc[handle[p]]
        /\ page_size[handle[p]] = 0 /\ nops >= 3

(* C7: at most one teardown finds a given entry: a teardown that is called
   while another one holds the entry returns -ENOENT at once, the page
   table of an entry is released at most once, and the waiter of a segment
   is that single teardown, which displaced no earlier waiter. *)
C7_SingleTeardown ==
    /\ [](\A h \in Handles :
            /\ Cardinality(Teardowns(h)) <= 1
            /\ nfreed[h] <= 1
            /\ wait_task[h] # 0 => wait_task[h] \in Teardowns(h)
            /\ \A p \in Teardowns(h) : wait_task_saved[p] = 0)
    /\ [][\A p \in Procs, h \in Handles :
            /\ Calls(p, "unmap", h) \/ Calls(p, "revoke", h)
            /\ Teardowns(h) # {}
            => pc'[p] = "ret" /\ rc'[p] = "-ENOENT"]_vars

(* C7, the part of it that rests on C2: of two concurrent teardowns of one
   handle, the one that unlinked the entry is on its way to release the
   page table: it has not stopped at an assertion once the other one has
   returned -ENOENT. *)
C7_UnlinkerReleases ==
    \A p, q \in Procs :
        /\ pc[q] = "ret" /\ op[q] \in {"unmap", "revoke"}
        /\ rc[q] = "-ENOENT"
        /\ pc[p] \in CleanupPcs /\ mgmem[p] = handle[q]
        => pc[p] # "BUG_ON_cleanup"

\* an unmap waits for the holders of a segment and the revocation of the
\* same segment has returned not-found
C7_Witness ==
    \E p, q \in Procs :
        /\ pc[p] = "cleanup_schedule" /\ op[p] = "unmap"
        /\ pc[q] = "ret" /\ op[q] = "revoke" /\ rc[q] = "-ENOENT"
        /\ handle[q] = mgmem[p]

(* C8: when map fails after the pin succeeded the pin has been released
   when the error is returned, when the pin itself fails there is nothing
   to release, and in both cases the entry is freed and was never in the
   registry. *)
C8_MapFailureReleasesPin ==
    /\ [](\A p \in Procs : pc[p] \in MapPcs => mgmem[p] \notin Registry)
    /\ [][\A p \in Procs :
            /\ pc[p] \in MapPcs /\ pc'[p] = "ret" /\ rc'[p] # "0" =>
                  LET h == mgmem[p] IN
                  /\ page_table'[h] = "released" /\ nfreed'[h] = 1
                  /\ ~mgmem_alloc'[h]
                  /\ h \notin RegistryOf(strom_mgmem_slots')
            /\ Returns(p, "map") /\ InUserSpace(p) =>
                  /\ \A h \in Handles :
                        /\ ~Pinned(h) => page_table'[h] \notin
                                             {"pinned", "revoking"}
                        /\ mgmem_alloc'[h] = mgmem_alloc[h]
                  /\ UNCHANGED regvars]_vars

\* the first call is a map that failed after its pin, which is released
C8_Witness ==
    \E p \in Procs, h \in Handles :
        /\ nops = 1
        /\ pc[p] = "ret" /\ op[p] = "map" /\ rc[p] \in {"-EINVAL", "-EFAULT"}
        /\ page_table[h] = "released" /\ nfreed[h] = 1 /\ ~mgmem_alloc[h]

(* C9: map records map_offset = address mod 65536 and the base address
   address - map_offset it pins from, so that base + map_offset is the
   requested address. *)
C9_MapOffsetAndBase ==
    \A p \in Procs :
        pc[p] \in MapPcs =>
            LET h == mgmem[p]
                v == karg[p].vaddress IN
            /\ map_offset[h] = v % 65536
            /\ map_address[h] = v - map_offset[h]
            /\ map_address[h] + map_offset[h] = v

\* a map of an address above 64 KiB that is not on the 64 KiB grid
C9_Witness ==
    \E p \in Procs :
        /\ pc[p] = "map_attach"
        /\ karg[p].vaddress > 65536
        /\ karg[p].vaddress % 65536 # 0

(* C10: the map_length map records is a multiple of 64 KiB and at least
   map_offset + length. *)
C10_MapLengthRoundedUp ==
    \A p \in Procs :
        pc[p] \in MapPcs =>
            LET h == mgmem[p] IN
            /\ map_length[h] % 65536 = 0
            /\ map_length[h] >= map_offset[h] + karg[p].length

(* ------------------------------ copy tasks ----------------------------- *)
\* the errno values an entry point of the module returns
Errnos == {"-EFAULT", "-ENOMEM", "-ENOENT", "-EINVAL", "-EBADF",
           "-ENOTSUPP"}

\* the request of a task was well formed and the chunk loop ran to its
\* end: memory chunks only, every page of them pinned
RequestDone(t) ==
    /\ dtask_alloc[t]
    /\ Len(dtask_chunks[t]) > 0
    /\ \A i \in DOMAIN dtask_chunks[t] : dtask_chunks[t][i].source = "m"
    /\ dtask_nitems[t] = PagesBefore(dtask_chunks[t],
                                     Len(dtask_chunks[t]) + 1)

(* C11: a submit on a registered handle whose request is well formed
   returns the id of the task it registered, not an error value. *)
C11_SubmitReturnsTaskId ==
    [][\A p \in Procs :
          /\ pc[p] = "dtask_free" /\ op[p] = "submit"
          /\ RequestDone(dtask[p])
          /\ pc'[p] = "ret"
          => rc'[p] \notin Errnos]_vars

\* a submit whose chunks were all pinned is about to return
C11_Witness ==
    \E p \in Procs :
        /\ pc[p] = "dtask_free" /\ op[p] = "submit"
        /\ RequestDone(dtask[p])
        /\ dtask_nitems[dtask[p]] = 2

(* C12: a submit on a handle that is not registered returns not-found and
   leaves everything as it was: no host page pinned, no task allocated or
   linked, no reference count changed, and the reference on the source
   file, if one was named, given back. *)
C12_SubmitUnregistered ==
    [][\A p \in Procs, h \in Handles :
          Calls(p, "submit", h) /\ h \notin Registry
          => /\ pc'[p] = "ret" /\ rc'[p] = "-ENOENT"
             /\ npinned' = npinned
             /\ dtask_alloc' = dtask_alloc
             /\ strom_dma_task_slots' = strom_dma_task_slots
             /\ refcnt' = refcnt
             /\ f_count' = f_count /\ filp'[p] = 0]_vars

\* a submit on an unregistered handle has returned
C12_Witness ==
    \E p \in Procs :
        /\ pc[p] = "ret" /\ op[p] = "submit" /\ rc[p] = "-ENOENT"
        /\ handle[p] \in Handles \ Registry

\* where a submit holds the reference it took on its destination segment
SubmitHolderPcs == {"submit_alloc", "submit_error_2", "dtask_engine",
                    "dtask_cleanup", "dtask_release"}
SubmitHolders(h) ==
    {p \in Procs : pc[p] \in SubmitHolderPcs /\ mgmem[p] = h}

(* C13: every submit in flight on a segment holds exactly one reference on
   it, from the lookup to the release on whichever path it leaves by
   (failed allocation, failed registration, or destruction of its task); a
   registered task names the segment its submitter holds; so the reference
   count equals the number of submits in flight and is back at its value
   from before once they have all returned, and no release finds the count
   already at zero. *)
C13_TaskReferences ==
    /\ \A h \in Handles : refcnt[h] = Cardinality(SubmitHolders(h))
    /\ \A p \in Procs :
          /\ pc[p] # "BUG_ON_put"
          /\ pc[p] \in {"dtask_engine", "dtask_cleanup", "dtask_release"}
             => dtask_alloc[dtask[p]] /\ dtask_mgmem[dtask[p]] = mgmem[p]

\* two submits hold the same segment at once, one of them with its task
\* registered, and a third submit on it has returned
C13_Witness ==
    \E p, q, r \in Procs :
        /\ p # q /\ mgmem[p] = mgmem[q] /\ mgmem[p] \in Handles
        /\ pc[p] \in {"dtask_engine", "dtask_cleanup", "dtask_release"}
        /\ pc[q] \in {"submit_alloc", "submit_error_2"}
        /\ refcnt[mgmem[p]] = 2
        /\ pc[r] = "ret" /\ op[r] = "submit" /\ rc[r] = "-EINVAL"

(* C14: once the tasks have been destroyed no host page pinned for them is
   still pinned. *)
C14_DestroyedTaskHoldsNoPage ==
    (\A t \in Tasks : ~dtask_alloc[t]) => npinned = 0

\* a task with pinned host pages has been unlinked and has given back its
\* segment reference; what remains is the end of strom_cleanup_dma_task
C14_Witness ==
    \E p \in Procs :
        /\ pc[p] = "dtask_free"
        /\ dtask_nitems[dtask[p]] > 0
        /\ npinned = dtask_nitems[dtask[p]]

(* ------------------------------- waiting ------------------------------- *)
(* C15: a wait for a task id returns success to its caller, also when no
   task of that id is registered any more. *)
C15_WaitReturnsSuccess ==
    \A p \in Procs :
        pc[p] = "ret" /\ op[p] = "wait" /\ handle[p] \in Tasks
        => rc[p] = "0"

\* a task has been destroyed and its submit has returned; a wait for its
\* id has found no task and has returned
C15_Witness ==
    \E p, q \in Procs :
        /\ pc[q] = "ret" /\ op[q] = "submit" /\ rc[q] = "-EINVAL"
        /\ pc[p] = "ret" /\ op[p] = "wait" /\ handle[p] \in Tasks
        /\ ~dtask_alloc[handle[p]]
        /\ rc[p] = WaitNotFound

\* the contexts asleep in a wait
Sleepers ==
    {p \in Procs : pc[p] = "wait_schedule"
                   /\ task_state[p] = "UNINTERRUPTIBLE"}

(* C16, the wake-up is not lost: every context asleep in a wait is the
   waiter of a task not yet destroyed, or is the saved waiter of another
   context that is still inside its own wait, which wakes it in turn. *)
C16_NoLostWakeup ==
    \A p \in Sleepers :
        \/ /\ dtask_alloc[handle[p]]
           /\ dtask_wait_task[handle[p]] = p
        \/ \E q \in Procs :
              pc[q] = "wait_schedule" /\ wait_task_saved[q] = p

(* C16: a wait that found its task and has been woken returns success to
   its caller. *)
C16_WokenWaitReturnsSuccess ==
    [][\A p \in Procs :
          pc[p] = "wait_recheck" /\ pc'[p] # "wait_recheck"
          => pc'[p] = "ret" /\ rc'[p] = "0"]_vars

\* two contexts are asleep in waits for the same registered task, the
\* second having displaced the first as its waiter
C16_Witness ==
    \E p, q \in Sleepers :
        /\ p # q /\ handle[p] = handle[q]
        /\ dtask_alloc[handle[p]]
        /\ dtask_wait_task[handle[p]] = q /\ wait_task_saved[q] = p

(* --------------------------- QueryGpuMemory ---------------------------- *)
(* C17: an info ioctl on a mapped segment writes the first
   min(nrooms, entries) physical addresses of the page table, in its
   order, and never more; with no failed copy to user space it also
   reports the page size and the full entry count and returns 0, however
   small nrooms is; it returns -EFAULT exactly when a copy to user space
   failed, which leaves the header or one of those addresses unwritten. *)
C17_InfoOutput ==
    [][\A p \in Procs :
          pc[p] = "info_copy" /\ pc'[p] = "ret"
          => LET h    == mgmem[p]
                 n    == Min(uout[p].nrooms, PageTableEntries(h))
                 out  == uout'[p]
                 full == /\ out.page_size = page_size[h]
                         /\ out.entries = PageTableEntries(h)
                         /\ Len(out.physical_address) = n
             IN /\ Len(out.physical_address) <= n
                /\ \A i \in DOMAIN out.physical_address :
                      out.physical_address[i] = PhysicalAddress(h, i - 1)
                /\ out.nrooms = uout[p].nrooms
                /\ rc'[p] = IF full THEN "0" ELSE "-EFAULT"]_vars

\* an info ioctl with room for 2 of the 5 entries has returned 0
C17_Witness ==
    \E p \in Procs :
        /\ pc[p] = "ret" /\ op[p] = "info" /\ rc[p] = "0"
        /\ uout[p].nrooms = 2 /\ uout[p].entries = 5
        /\ Len(uout[p].physical_address) = 2
        /\ uout[p].physical_address[1] # uout[p].physical_address[2]

(* ----------------------------- descriptors ----------------------------- *)
\* the chunk loop of a well-formed request is over
CopyOver(p) ==
    /\ pc[p] \in {"dtask_cleanup", "BUG_ON_copy", "fault_copy"}
    /\ op[p] = "submit"
    /\ RequestDone(dtask[p])

RECURSIVE TotalLength(_, _)
TotalLength(chunks, n) ==
    IF n = 0 THEN 0 ELSE TotalLength(chunks, n - 1) + chunks[n].length

\* the bytes of destination the first n descriptors cover
RECURSIVE DstBytes(_, _)
DstBytes(tx, n) ==
    IF n = 0 THEN 0 ELSE DstBytes(tx, n - 1) + tx[n].dst_size

\* where byte o of the segment is in device memory
DstAddress(h, o) ==
    PhysicalAddress(h, o \div page_size[h]) + (o % page_size[h])

(* C18: when the chunk loop is over, the destination extents of the
   descriptors submitted, taken in order, follow one another from the
   first byte of the requested destination range to its last, and none of
   them crosses a boundary of the destination page grid. *)
C18_DestinationCovered ==
    \A p \in Procs :
        CopyOver(p)
        => LET t  == dtask[p]
               h  == dtask_mgmem[t]
               tx == dtask_dstate[t].tx
               lo(n) == dtask_dstate[t].offset + DstBytes(tx, n - 1)
           IN /\ DstBytes(tx, Len(tx))
                   = TotalLength(dtask_chunks[t], Len(dtask_chunks[t]))
              /\ \A n \in DOMAIN tx :
                    /\ tx[n].dst_addr = DstAddress(h, lo(n))
                    /\ (lo(n) % page_size[h]) + tx[n].dst_size
                          <= page_size[h]

\* the chunk loop is over for one chunk of two pages that starts at the
\* head of a destination page of 64KB
C18_Witness ==
    \E p \in Procs :
        /\ CopyOver(p)
        /\ dtask_chunks[dtask[p]] = <<MemChunk(0, 2 * PAGE_SIZE)>>
        /\ dtask_dstate[dtask[p]].offset = 0
        /\ page_size[dtask_mgmem[dtask[p]]] = 64 * 1024

\* the chunks are whole pages
WholePages(chunks) ==
    \A i \in DOMAIN chunks :
        /\ chunks[i].host_addr % PAGE_SIZE = 0
        /\ chunks[i].length % PAGE_SIZE = 0

\* the maximal runs of pages that are contiguous in the source and do not
\* cross a boundary of the destination page grid, for whole pages copied
\* to offset o of segment h
Runs(h, o, pages) ==
    IF pages = <<>> THEN 0
    ELSE 1 + Cardinality(
               {n \in 1..(Len(pages) - 1) :
                   \/ pages[n + 1] # pages[n] + PAGE_SIZE
                   \/ (o + n * PAGE_SIZE) % page_size[h] = 0})

(* C19: when the chunk loop is over for chunks of whole pages, one
   descriptor has been submitted for each maximal run of pages that is
   contiguous in the source and does not cross a boundary of the
   destination page grid, and no descriptor is of zero length. *)
C19_DescriptorPerRun ==
    \A p \in Procs :
        CopyOver(p) /\ WholePages(dtask_chunks[dtask[p]])
        => LET t  == dtask[p]
               tx == dtask_dstate[t].tx
           IN /\ Len(tx) = Runs(dtask_mgmem[t], dtask_dstate[t].offset,
                                dtask_dstate[t].pages)
              /\ \A n \in DOMAIN tx :
                    tx[n].src_size > 0 /\ tx[n].dst_size > 0

\* the chunk loop is over for three chunks of one page each, their pages
\* contiguous, all inside the first destination page of 64KB
C19_Witness ==
    \E p \in Procs :
        /\ CopyOver(p)
        /\ Len(dtask_chunks[dtask[p]]) = 3
        /\ dtask_dstate[dtask[p]].offset = 0
        /\ page_size[dtask_mgmem[dtask[p]]] = 64 * 1024
        /\ Runs(dtask_mgmem[dtask[p]], 0, dtask_dstate[dtask[p]].pages) = 1

(* ----------------------------- pin failure ----------------------------- *)
\* the chunk loop of p's task ended at a pin that failed: fewer pages are
\* recorded than its memory chunks have
PinFailed(p) ==
    /\ pc[p] \in {"dtask_cleanup", "dtask_release", "dtask_free"}
    /\ op[p] = "submit"
    /\ dtask_nitems[dtask[p]]
          < PagesBefore(dtask_chunks[dtask[p]],
                        Len(dtask_chunks[dtask[p]]) + 1)

(* C20, the abort: after a failed pin nothing more is submitted for the
   task, its task is destroyed and its submit returns an error value. *)
C20_PinFailureAborts ==
    [][\A p \in Procs :
          PinFailed(p)
          => /\ pc'[p] \in {"dtask_cleanup", "dtask_release", "dtask_free",
                            "ret"}
             /\ pc'[p] # "ret"
                => dtask_dstate'[dtask[p]] = dtask_dstate[dtask[p]]
             /\ pc'[p] = "ret"
                => rc'[p] \in Errnos /\ ~dtask_alloc'[dtask[p]]]_vars

(* C20: when the task of a failed pin is destroyed, the host pages that
   had been pinned for it are released, and its submit returns an error
   value. *)
C20_PinFailureReleasesPages ==
    [][\A p \in Procs :
          PinFailed(p) /\ pc[p] = "dtask_free" /\ pc'[p] = "ret"
          => /\ rc'[p] \in Errnos
             /\ npinned' = npinned - dtask_nitems[dtask[p]]]_vars

\* a pin of two pages got one page; no descriptor was submitted; the task
\* is about to be freed
C20_Witness ==
    \E p \in Procs :
        /\ PinFailed(p) /\ pc[p] = "dtask_free"
        /\ dtask_nitems[dtask[p]] = 1
        /\ dtask_dstate[dtask[p]].tx = <<>>

(* --------------------------- the chunk sources ------------------------- *)
\* the chunks of a request whose source is neither host memory nor file
InvalidChunks(chunks) ==
    {k \in DOMAIN chunks : chunks[k].source \notin {"m", "f"}}

\* the chunk loop of p's submit is over and its task is being destroyed
LoopEnded(p) ==
    /\ pc[p] \in {"dtask_cleanup", "dtask_release", "dtask_free"}
    /\ op[p] = "submit"

(* C21, the error: the submit of a request with a chunk of an invalid
   source returns an error value and its task is destroyed. *)
C21_InvalidChunkFails ==
    [][\A p \in Procs :
          /\ pc[p] = "dtask_free" /\ op[p] = "submit"
          /\ InvalidChunks(dtask_chunks[dtask[p]]) # {}
          /\ pc'[p] = "ret"
          => rc'[p] \in Errnos /\ ~dtask_alloc'[dtask[p]]]_vars

(* C21: a chunk of an invalid source ends the chunk loop: no host page is
   pinned for the chunks after it. *)
C21_InvalidChunkStopsTheLoop ==
    \A p \in Procs :
        LoopEnded(p)
        => \A k \in InvalidChunks(dtask_chunks[dtask[p]]) :
              dtask_nitems[dtask[p]]
                 <= PagesBefore(dtask_chunks[dtask[p]], k)

\* the chunk loop is over for a request whose first chunk is invalid, and
\* the page of the memory chunk after it has been pinned
C21_Witness ==
    \E p \in Procs :
        /\ LoopEnded(p)
        /\ 1 \in InvalidChunks(dtask_chunks[dtask[p]])
        /\ dtask_nitems[dtask[p]] = 1

(* ------------------------------- release ------------------------------- *)
(* C22: the refcnt of a segment goes down only in a release by one of its
   holders, and by exactly one; the release that brings it to 0 while a
   teardown waiter is registered wakes that waiter, nobody else, and clears
   the waiter slot; every other release wakes nobody and leaves the waiter
   slot as it is. *)
C22_ReleaseWakesTheWaiter ==
    [][\A h \in Handles :
          refcnt'[h] < refcnt[h]
          => /\ refcnt'[h] = refcnt[h] - 1
             /\ \E p \in Holders(h) :
                   /\ pc[p] \in {"info_copy", "submit_error_2",
                                  "dtask_release"}
                   /\ pc'[p] # pc[p]
             /\ IF refcnt'[h] = 0 /\ wait_task[h] # 0
                THEN /\ task_state' = [task_state EXCEPT
                                          ![wait_task[h]] = "RUNNING"]
                     /\ task_state[wait_task[h]] = "UNINTERRUPTIBLE"
                     /\ wait_task' = [wait_task EXCEPT ![h] = 0]
                ELSE task_state' = task_state /\ wait_task' = wait_task]_vars

\* a teardown that slept on two holders has been woken by the release of
\* the second: the first release had left it asleep
C22_Witness ==
    \E p, q, r \in Procs :
        /\ q # r
        /\ pc[p] = "cleanup_schedule" /\ task_state[p] = "RUNNING"
        /\ refcnt[mgmem[p]] = 0 /\ wait_task[mgmem[p]] = 0
        /\ pc[q] = "ret" /\ op[q] \in {"info", "submit"}
        /\ handle[q] = mgmem[p] /\ rc[q] # "-ENOENT"
        /\ pc[r] = "ret" /\ op[r] \in {"info", "submit"}
        /\ handle[r] = mgmem[p] /\ rc[r] # "-ENOENT"

(* ------------------------------ completion ----------------------------- *)
\* the tasks linked anywhere in the registry of tasks
TaskRegistry == UNION {strom_dma_task_slots[i] : i \in TaskSlots}

\* the contexts that have unlinked task t and are releasing what it holds
Unlinkers(t) ==
    {p \in Procs : pc[p] \in {"dtask_release", "dtask_free", "BUG_ON_put"}
                   /\ dtask[p] = t}

\* the tasks that still hold their reference on segment h
TasksHolding(h) ==
    {t \in Tasks : /\ dtask_alloc[t] /\ dtask_mgmem[t] = h
                   /\ \A p \in Unlinkers(t) : pc[p] = "dtask_release"}

(* C23: of the invocations of the completion routine for one task, only
   the one that unlinks the task under the lock of its shard releases its
   references, wakes its waiter and frees it, each once: a task has at most
   one unlinker, it is not in the registry from then on, every reference
   count is the number of tasks that still hold their reference, and no
   release finds a count already at zero; an invocation that does not find
   the task changes nothing and returns. *)
C23_CompletionOnce ==
    /\ [](/\ \A t \in Tasks :
              /\ Cardinality(Unlinkers(t)) <= 1
              /\ Unlinkers(t) # {} => dtask_alloc[t] /\ t \notin TaskRegistry
           /\ \A h \in Handles : refcnt[h] = Cardinality(TasksHolding(h))
           /\ f_count = Cardinality({u \in Tasks : dtask_alloc[u]
                                                   /\ dtask_filp[u] = 1})
           /\ \A p \in Procs : pc[p] # "BUG_ON_put")
    /\ [][\A p \in Procs :
            /\ pc[p] = "dtask_cleanup" /\ pc'[p] # "dtask_cleanup"
               => IF dtask[p] \in TaskRegistry
                  THEN pc'[p] = "dtask_release"
                  ELSE /\ pc'[p] = "ret"
                       /\ UNCHANGED <<segvars, regvars, taskvars,
                                      task_state, f_count, npinned>>
            /\ pc[p] = "dtask_free" /\ pc'[p] = "ret"
               => /\ ~dtask_alloc'[dtask[p]]
                  /\ dtask_wait_task[dtask[p]] # 0
                     => task_state'[dtask_wait_task[dtask[p]]] = "RUNNING"]_vars

\* the task has been destroyed by one invocation, which released its
\* segment and its file and woke its waiter, and two more invocations have
\* returned
C23_Witness ==
    \E p, q, r \in Procs :
        /\ p # q /\ p # r /\ q # r
        /\ \A t \in Tasks : ~dtask_alloc[t]
        /\ \A h \in Handles : refcnt[h] = 0
        /\ pc[p] = "ret" /\ op[p] = "submit"
        /\ pc[q] = "ret" /\ op[q] = "complete"
        /\ pc[r] \in {"ret", "wait_recheck"} /\ op[r] \in {"complete", "wait"}
        /\ nops = MaxOps

(* C24 as stated: the destination reference and the file reference of a
   task are released and its waiter is woken while the task is still in the
   registry; it is removed from the registry after that. *)
C24_ReleasesBeforeUnlink ==
    [][\A p \in Procs :
          /\ pc[p] \in {"dtask_release", "dtask_free"}
          /\ pc'[p] # pc[p]
          => dtask[p] \in TaskRegistry]_vars

(* C24, the order of the code: the task is removed from the registry
   first, under the lock of its shard; the release of the destination
   reference comes next and touches neither the file nor the waiter; then
   the file reference is released, the waiter is woken and the task is
   freed. *)
C24_UnlinkBeforeReleases ==
    [][\A p \in Procs :
          LET t == dtask[p] IN
          /\ pc[p] = "dtask_cleanup" /\ pc'[p] = "dtask_release"
             => /\ t \in TaskRegistry /\ t \notin UNION
                       {strom_dma_task_slots'[i] : i \in TaskSlots}
                /\ refcnt' = refcnt /\ f_count' = f_count
                /\ task_state' = task_state
          /\ pc[p] = "dtask_release" /\ pc'[p] = "dtask_free"
             => /\ t \notin TaskRegistry /\ dtask_alloc'[t]
                /\ refcnt'[dtask_mgmem[t]] = refcnt[dtask_mgmem[t]] - 1
                /\ f_count' = f_count
                /\ dtask_wait_task[t] # 0
                   => task_state'[dtask_wait_task[t]]
                         = task_state[dtask_wait_task[t]]
          /\ pc[p] = "dtask_free" /\ pc'[p] = "ret"
             => /\ t \notin TaskRegistry /\ ~dtask_alloc'[t]
                /\ refcnt' = refcnt
                /\ f_count' = f_count - dtask_filp[t]
                /\ dtask_wait_task[t] # 0
                   => task_state'[dtask_wait_task[t]] = "RUNNING"]_vars

\* a task with a source file and a sleeping waiter has been removed from
\* the registry and has released its segment; its file is still held and
\* its waiter still asleep
C24_Witness ==
    \E p, q \in Procs :
        /\ pc[p] = "dtask_free"
        /\ dtask[p] \notin TaskRegistry
        /\ refcnt[dtask_mgmem[dtask[p]]] = 0
        /\ dtask_filp[dtask[p]] = 1 /\ f_count = 1
        /\ dtask_wait_task[dtask[p]] = q
        /\ pc[q] = "wait_schedule" /\ task_state[q] = "UNINTERRUPTIBLE"

(* ------------------------------- sleeping ------------------------------ *)
\* the contexts asleep in schedule(), in a teardown or in a wait
Asleep ==
    {p \in Procs : /\ pc[p] \in {"cleanup_schedule", "wait_schedule"}
                   /\ task_state[p] = "UNINTERRUPTIBLE"}

(* C25: a context that sleeps in the drain of a teardown or in a wait for
   a task owns no shard lock of either registry, so no lock that another
   context needs, the release that wakes the sleeper included, is owned by
   a sleeper. *)
C25_NoLockHeldAsleep ==
    \A p \in Asleep :
        /\ \A i \in MgmemSlots : strom_mgmem_mutex[i] # p
        /\ \A i \in TaskSlots : strom_dma_task_mutex[i] # p

\* a teardown sleeps on the holder of its segment while another context
\* sleeps in a wait for that holder's task
C25_Witness ==
    \E p, q, r \in Procs :
        /\ {p, q} \subseteq Asleep
        /\ pc[p] = "cleanup_schedule" /\ pc[q] = "wait_schedule"
        /\ pc[r] \in {"dtask_engine", "dtask_cleanup"}
        /\ mgmem[r] = mgmem[p] /\ dtask[r] = handle[q]

(* ------------------------------ host pages ----------------------------- *)
\* the host pages that the bytes [a, a + L) lie in, L > 0
CoveringPages(a, L) == ((a + L - 1) \div PAGE_SIZE) - (a \div PAGE_SIZE) + 1

\* the unit lengths the loop over the pages of a chunk feeds to the
\* coalescer, and their sum
UnitLengths(dchunk) ==
    [i \in 1..nr_pages(dchunk) |-> PageSz(PageOffset(dchunk, i),
                                          dchunk.length)]

RECURSIVE Sum(_, _)
Sum(seq, n) == IF n = 0 THEN 0 ELSE Sum(seq, n - 1) + seq[n]

(* C26: for every host-memory chunk of a task whose pages were all pinned,
   the number of pages pinned is the number of host pages its bytes lie
   in, and the unit lengths of its pages are each in 1..PAGE_SIZE and sum
   to its length. *)
C26_PinCoversChunk ==
    \A p \in Procs :
        CopyOver(p)
        => \A k \in DOMAIN dtask_chunks[dtask[p]] :
              LET dchunk == dtask_chunks[dtask[p]][k]
                  units  == UnitLengths(dchunk)
              IN dchunk.length > 0
                 => /\ nr_pages(dchunk)
                       = CoveringPages(dchunk.host_addr, dchunk.length)
                    /\ \A i \in DOMAIN units : units[i] \in 1..PAGE_SIZE
                    /\ Sum(units, Len(units)) = dchunk.length

\* the pages of a chunk of two bytes, the last of one host page and the
\* first of the next, have been pinned
C26_Witness ==
    \E p \in Procs :
        /\ CopyOver(p)
        /\ dtask_chunks[dtask[p]] = <<MemChunk(PAGE_SIZE - 1, 2)>>
        /\ dtask_nitems[dtask[p]] = 1

(* ---------------------------- task id reuse ---------------------------- *)
(* C27: the assertion of wait never fires: a wait that has been woken
   finds no task of the id it waited for in the registry. *)
C27_WaitAssertionHolds ==
    \A p \in Procs : pc[p] # "BUG_ON_wait"

\* a wait has been woken by the destruction of its task and has not yet
\* looked at the registry again; another submit has registered a new task
\* at the address of the old one, which is the id the wait was given
C27_Witness ==
    \E p, q \in Procs :
        /\ pc[p] = "wait_recheck"
        /\ handle[p] \in TaskRegistry
        /\ dtask_wait_task[handle[p]] = 0
        /\ pc[q] = "dtask_engine" /\ dtask[q] = handle[p]


(* ------------- revocation between the pin and the registration --------- *)
(* C28: every segment in the registry has a page table that is still
   pinned; a revocation that fires between the pinning call and the
   registration does not leave a revoked table registered. *)
C28_RegisteredIsPinned ==
    \A h \in Registry : page_table[h] = "pinned"

C28_Witness ==
    \E p, q \in Procs :
        /\ pc[p] = "map_attach"
        /\ mgmem[p] \notin Registry
        /\ page_table[mgmem[p]] = "revoked"
        /\ op[q] = "revoke" /\ handle[q] = mgmem[p]
        /\ pc[q] = "ret" /\ rc[q] = "-ENOENT"


(* ---------------------- the loops of the chunk routine ----------------- *)
\* p is in the loop over the file pages of a file chunk
InFileLoop(p) == pc[p] = "dtask_file_loop"

(* C29: the chunk routine terminates: every turn of the loop over the file
   pages of a file chunk that leads to another turn has advanced the file
   position towards the end of the chunk. *)
C29_FileLoopProgresses ==
    [][\A p \in Procs :
          InFileLoop(p) /\ InFileLoop(p)'
          /\ dtask_dstate'[dtask[p]] # dtask_dstate[dtask[p]]
          => dtask_dstate'[dtask[p]].pos > dtask_dstate[dtask[p]].pos]_vars

C29_Witness ==
    \E p \in Procs :
        /\ InFileLoop(p)
        /\ dtask_dstate[dtask[p]].turns = MaxTurns
        /\ dtask_dstate[dtask[p]].pos = PAGE_SIZE
        /\ dtask_nitems[dtask[p]] = MaxTurns
        /\ dtask_chunks[dtask[p]] = <<FileChunk(PAGE_SIZE, PAGE_SIZE)>>


(* ------------------- indexes into the destination table ---------------- *)
\* the destination bytes of t's request lie in the mapped segment
DestinationInRange(t) ==
    LET h == dtask_mgmem[t] IN
    map_offset[h] + dtask_dstate[t].offset
        + TotalLength(dtask_chunks[t], Len(dtask_chunks[t])) <= map_length[h]

(* C30: every index the copy engine uses into the destination page table
   is smaller than the number of its entries: page_table->pages[] is never
   read past its end. *)
C30_IndexInRange ==
    \A p \in Procs : pc[p] # "fault_copy"

C30_Witness ==
    \E p \in Procs :
        /\ pc[p] = "fault_copy"
        /\ op[p] = "submit"
        /\ dtask[p] \in TaskRegistry
        /\ ~DestinationInRange(dtask[p])
        /\ dtask_dstate[dtask[p]].offset \div page_size[dtask_mgmem[dtask[p]]]
               >= PageTableEntries(dtask_mgmem[dtask[p]])

====
